---- MODULE Spec2Model ----
(***************************************************************************)
(* Vehicle signal server: the signal tree (vssdatabase), the subscription  *)
(* engine (SubscriptionHandler) with its delivery thread, and the request  *)
(* handlers that drive them.                                               *)
(*                                                                         *)
(* Threads of the model: the request handlers (Handlers), the delivery     *)
(* worker (subThreadRunner) and the owner of the SubscriptionHandler       *)
(* object, which runs startThread in the constructor and stopThread in the *)
(* destructor.                                                             *)
(***************************************************************************)
EXTENDS Integers, Sequences, FiniteSets, TLC

(***************************************************************************)
(* Bounds of the model.                                                    *)
(***************************************************************************)
MaxSets == 2
MaxSubscribes == 2

(***************************************************************************)
(* Program constants.                                                      *)
(***************************************************************************)
\* visconf.hpp (not part of the sources): the power of ten that separates
\* the client number from the random suffix of a subscription id.
CLIENT_MASK == 10000000
\* rand() % 9999999 in subscribe
RAND_SPAN == 9999999

(***************************************************************************)
(* JSON values.  A value is a record: an integer number, a boolean (n is 0 *)
(* or 1) or a string.                                                      *)
(***************************************************************************)
JInt(n) == [k |-> "int", n |-> n, s |-> ""]
JBool(b) == [k |-> "bool", n |-> IF b THEN 1 ELSE 0, s |-> ""]
JStr(str) == [k |-> "str", n |-> 0, s |-> str]
\* what a conversion yields when it throws
Thrown == [k |-> "throw", n |-> 0, s |-> ""]
\* the marker getSignal returns for a leaf without a value
NoValue == JStr("---")

Pow2(w) == IF w = 8 THEN 256 ELSE IF w = 16 THEN 65536 ELSE 16777216

\* static_cast to an unsigned integer of w bits
WrapUnsigned(w, n) == n % Pow2(w)
\* static_cast to a signed integer of w bits
WrapSigned(w, n) == ((n + (Pow2(w) \div 2)) % Pow2(w)) - (Pow2(w) \div 2)

Abs(n) == IF n < 0 THEN 0 - n ELSE n

\* static_cast<float> of an integer-valued number: 24 bits of mantissa,
\* round to nearest, ties to even.  Exact for |n| <= 2^24; between 2^24 and
\* 2^25 the representable numbers are the multiples of 2.  The model draws no
\* larger magnitudes.
RoundFloat(n) ==
  IF Abs(n) <= 16777216 THEN n
  ELSE LET a == Abs(n)
           lowEven == (a \div 2) * 2
           r == IF a = lowEven THEN a
                ELSE IF (lowEven \div 2) % 2 = 0 THEN lowEven ELSE lowEven + 2
       IN IF n < 0 THEN 0 - r ELSE r

IntegerTypes == {"UInt8", "UInt16", "Int8", "Int16", "Int32"}
IsUnsignedType(t) == t \in {"UInt8", "UInt16"}
TypeWidth(t) == IF t \in {"UInt8", "Int8"} THEN 8 ELSE 16

\* json::as<T>() of the JSON library for the datatype named t.  A number is
\* cast (static_cast, no range check), a boolean converts to 0 or 1 for the
\* integer types, a string that is not a number makes the conversion throw.
\* Every integer of the model lies in the range of int32_t and is exactly
\* representable as a double.
AsType(t, v) ==
  IF t \in IntegerTypes THEN
     IF v.k = "int" THEN
        IF t = "Int32" THEN JInt(v.n)
        ELSE IF IsUnsignedType(t) THEN JInt(WrapUnsigned(TypeWidth(t), v.n))
        ELSE JInt(WrapSigned(TypeWidth(t), v.n))
     ELSE IF v.k = "bool" THEN JInt(v.n)
     ELSE Thrown
  ELSE IF t = "Float" THEN
     IF v.k = "int" THEN JInt(RoundFloat(v.n)) ELSE Thrown
  ELSE IF t = "Double" THEN
     IF v.k = "int" THEN v ELSE Thrown
  ELSE IF t = "Boolean" THEN
     IF v.k = "bool" THEN v
     ELSE IF v.k = "int" THEN JBool(v.n # 0)
     ELSE Thrown
  ELSE IF t = "String" THEN
     IF v.k = "str" THEN v
     ELSE IF v.k = "int" THEN JStr(ToString(v.n))
     ELSE JStr(IF v.n = 1 THEN "true" ELSE "false")
  ELSE Thrown

\* the datatypes setSignal knows (its if/else chain); UInt32 is left out, its
\* values lie beyond the integers of the checker and the tree has no such leaf
SupportedTypes == IntegerTypes \cup {"Float", "Double", "Boolean", "String"}

(***************************************************************************)
(* The signal tree loaded by initJsonTree.  A node is named by the         *)
(* sequence of names from the root; "type" is "branch" or the leaf's       *)
(* datatype, "uuid" identifies the signal to the subscription engine.      *)
(***************************************************************************)
TreeNodes ==
  (<<"Vehicle">> :> [type |-> "branch", uuid |-> "u0"]) @@
  (<<"Vehicle", "Acceleration">> :> [type |-> "branch", uuid |-> "u1"]) @@
  (<<"Vehicle", "Acceleration", "Lateral">> :> [type |-> "Int8", uuid |-> "u2"]) @@
  (<<"Vehicle", "Acceleration", "Vertical">> :> [type |-> "UInt8", uuid |-> "u3"]) @@
  (<<"Vehicle", "Speed">> :> [type |-> "Float", uuid |-> "u4"]) @@
  (<<"Vehicle", "Moving">> :> [type |-> "Boolean", uuid |-> "u5"]) @@
  (<<"Vehicle", "VIN">> :> [type |-> "String", uuid |-> "u6"])

NodePaths == DOMAIN TreeNodes
LeafPaths == {p \in NodePaths : TreeNodes[p].type # "branch"}
UUIDs == {TreeNodes[p].uuid : p \in LeafPaths}

\* the JSON library keeps the members of an object sorted by name
NameRank(name) ==
  CASE name = "Acceleration" -> 1
    [] name = "Lateral" -> 2
    [] name = "Moving" -> 3
    [] name = "Speed" -> 4
    [] name = "VIN" -> 5
    [] name = "Vehicle" -> 6
    [] name = "Vertical" -> 7
    [] OTHER -> 0

RECURSIVE PathBefore(_, _)
PathBefore(p, q) ==
  IF q = <<>> THEN FALSE
  ELSE IF p = <<>> THEN TRUE
  ELSE IF Head(p) # Head(q) THEN NameRank(Head(p)) < NameRank(Head(q))
  ELSE PathBefore(Tail(p), Tail(q))

\* the JSON path of a node: "$.Vehicle.children.Acceleration.children.Lateral"
\* is the sequence of its names with "children" between them
RECURSIVE NodeJsonPath(_)
NodeJsonPath(q) ==
  IF Len(q) <= 1 THEN q
  ELSE <<Head(q), "children">> \o NodeJsonPath(Tail(q))

\* the names of a JSON path: its members at the odd positions
PatternNames(jp) == [i \in 1..((Len(jp) + 1) \div 2) |-> jp[2 * i - 1]]

\* a token that is no expression of JSONPath: an opened filter without its end
BadToken == "[?("

\* json_query throws for a path that is no JSONPath expression
QueryThrows(jp) == \E i \in 1..Len(jp) : jp[i] = BadToken

\* a JSON path whose members alternate between a name (or "*") and "children"
WellFormedJsonPath(jp) ==
  /\ Len(jp) % 2 = 1
  /\ \A i \in 1..Len(jp) : (i % 2 = 0) => jp[i] = "children"

\* json_query(vss_tree, format_path): the nodes a JSON path selects, a "*"
\* standing for any name.  The empty path "" selects nothing.
json_query(jp) ==
  IF ~WellFormedJsonPath(jp) THEN {}
  ELSE LET names == PatternNames(jp)
       IN {q \in NodePaths : /\ Len(q) = Len(names)
                             /\ \A i \in 1..Len(q) : names[i] \in {"*", q[i]}}

\* element 0 of a query result
FirstMatch(matches) == CHOOSE q \in matches : \A r \in matches \ {q} : PathBefore(q, r)

\* getVSSSpecificPath: format_path grows by one token per round and by
\* ".children" below a branch that is not the last token; the result path
\* <<>> stands for "".  Every round locks rwMutex, queries and unlocks; when
\* the query throws, the catch returns "" and the unlock is passed over:
\* locked tells that the function returns with rwMutex held.
RECURSIVE VSSSpecificPathFrom(_, _, _, _)
VSSSpecificPathFrom(tokens, i, format_path, isBranch) ==
  IF i > Len(tokens) THEN [path |-> format_path, isBranch |-> isBranch, locked |-> FALSE]
  ELSE LET fp == Append(format_path, tokens[i])
           res == json_query(fp)
           type == IF res = {} THEN "" ELSE TreeNodes[FirstMatch(res)].type
       IN IF QueryThrows(fp) THEN [path |-> <<>>, isBranch |-> FALSE, locked |-> TRUE]
          ELSE IF type = "branch" THEN
             VSSSpecificPathFrom(tokens, i + 1,
                                 IF i < Len(tokens) THEN Append(fp, "children") ELSE fp,
                                 TRUE)
          ELSE IF type # "" THEN [path |-> fp, isBranch |-> FALSE, locked |-> FALSE]
          ELSE [path |-> <<>>, isBranch |-> FALSE, locked |-> FALSE]

getVSSSpecificPath(tokens) == VSSSpecificPathFrom(tokens, 1, <<>>, FALSE)

\* getReadablePath: the dotted path of a JSON path, ".children" removed
getReadablePath(jPath) == SelectSeq(jPath, LAMBDA name : name # "children")

\* the nodes of a query result in the order of the result array
RECURSIVE QueryResult(_)
QueryResult(matches) ==
  IF matches = {} THEN <<>>
  ELSE LET q == FirstMatch(matches) IN <<q>> \o QueryResult(matches \ {q})

\* std::list::merge of two lists of JSON paths (compared as strings)
RECURSIVE MergeLists(_, _)
MergeLists(a, b) ==
  IF a = <<>> THEN b
  ELSE IF b = <<>> THEN a
  ELSE IF PathBefore(getReadablePath(Head(b)), getReadablePath(Head(a)))
       THEN <<Head(b)>> \o MergeLists(a, Tail(b))
       ELSE <<Head(a)>> \o MergeLists(Tail(a), b)

\* getPathForGet: the JSON paths of the leaves a path names; a branch among
\* the matches is replaced by the leaves below it (recursion on "<branch>.*")
RECURSIVE getPathForGet(_)

\* a collection that passes over a matched branch instead of descending into it
MutCollectPathsSkipBranch(pathRes, paths) ==
  LET leaves == SelectSeq(pathRes, LAMBDA q : TreeNodes[q].type # "branch")
  IN paths \o [i \in 1..Len(leaves) |-> NodeJsonPath(leaves[i])]

RECURSIVE CollectPaths(_, _)
CollectPaths(pathRes, paths) ==
  IF pathRes = <<>> THEN paths
  ELSE LET q == Head(pathRes)
       IN IF TreeNodes[q].type = "branch"
          THEN CollectPaths(Tail(pathRes), MergeLists(paths, getPathForGet(Append(q, "*"))))
          ELSE CollectPaths(Tail(pathRes), Append(paths, NodeJsonPath(q)))

getPathForGet(tokens) ==
  CollectPaths(QueryResult(json_query(getVSSSpecificPath(tokens).path)), <<>>)

(***************************************************************************)
(* Threads and inputs.                                                     *)
(***************************************************************************)
Handlers == {"h1"}
\* the threads of the websocket server that run handlers: the one of Handlers
\* and a second one for requests that arrive at the same time
Threads == {"h1", "h2"}

\* a leaf without a "value" member
Absent == [k |-> "none", n |-> 0, s |-> ""]

\* the request paths (as token lists) the handlers draw
Lateral == <<"Vehicle", "Acceleration", "Lateral">>
Vertical == <<"Vehicle", "Acceleration", "Vertical">>
Speed == <<"Vehicle", "Speed">>
Moving == <<"Vehicle", "Moving">>
VIN == <<"Vehicle", "VIN">>
Acceleration == <<"Vehicle", "Acceleration">>
InvalidPath == <<"Vehicle", "Invalid", "Path">>
\* the connection id of the unit tests
TestConnId == 11
\* a value of rand() % 9999999
SmallSuffix == 5

VARIABLES
  vss_tree,         \* the "value" member of every leaf
  subscribeHandle,  \* signal uuid -> (subscription id -> client id)
  buffer,           \* queue of (subscription id, value)
  subMutex,         \* "free" or the thread that holds the mutex
  threadRun,        \* the run flag of the worker
  workerPc,         \* position of subThreadRunner
  newSub,           \* the event the worker has popped
  mainPc,           \* position of the owner: startThread / stopThread
  hpc,              \* position of every handler
  hloc,             \* arguments and locals of the handler's request
  resp,             \* outcome of the request the handler is returning from
  sent,             \* frames handed to WsServer::sendToConnection
  lastSet,          \* per leaf, the request value of the last successful set
  owed,             \* events that the sets so far had to enqueue
  pushed,           \* every event in the order of its buffer.push
  nSets, nSubscribes,
  channel,          \* the WsChannel of the connection: authorized, token, modifyTree
  metaData,         \* per node, the metadata patch merged by updateMetaData
  pubkey,           \* Authenticator::pubkey, the key validate verifies with
  rwMutex           \* "free" or the thread that holds the mutex of the tree

vars == <<vss_tree, subscribeHandle, buffer, subMutex, threadRun, workerPc, newSub,
          mainPc, hpc, hloc, resp, sent, lastSet, owed, pushed, nSets, nSubscribes,
          channel, metaData, pubkey, rwMutex>>

\* the response of a request: an error envelope (number, reason) or, with
\* number 0, the members of a success response
NoAnswer == [number |-> 0, reason |-> "", path |-> <<>>, value |-> Absent,
             entries |-> <<>>, warning |-> <<>>, leaves |-> <<>>, valueFields |-> {}]

\* no request text: the handler was called directly
NoQuery == [parse |-> "none", keys |-> {}, action |-> "", requestId |-> 0, path |-> <<>>,
            value |-> Absent, subscriptionId |-> 0, token |-> ""]

\* written and events record what the request has done so far: the leaves
\* it has replaced and the number of events it has pushed
NoLocals == [path |-> <<>>, value |-> Absent, uuid |-> "", pending |-> {},
             request |-> Absent, channelID |-> 0, subId |-> 0,
             tokens |-> <<>>, values |-> <<>>, items |-> <<>>, readable |-> {},
             access |-> TRUE, answer |-> NoAnswer, query |-> NoQuery, patch |-> "",
             token |-> "", key |-> "none", res |-> 0, written |-> {}, events |-> 0]
\* the locals of a handler at its entry: processQuery's request stays in scope
Locals(h) == [NoLocals EXCEPT !.query = hloc[h].query]
\* a WsChannel as constructed: not authorized, no token, no modify-tree
NoChannel == [authorized |-> FALSE, token |-> "", modifyTree |-> FALSE]
NoEvent == [subId |-> 0, value |-> Absent]

\* State after the constructor has created the thread (startThread, first
\* statement): threadRun is not yet assigned and holds an indeterminate value.
Init ==
  /\ vss_tree = [p \in LeafPaths |-> Absent]
  /\ subscribeHandle = [u \in {} |-> <<>>]
  /\ buffer = <<>>
  /\ subMutex = "free"
  /\ threadRun \in BOOLEAN
  /\ workerPc = "check"
  /\ newSub = NoEvent
  /\ mainPc = "start"
  /\ hpc = [h \in Threads |-> "idle"]
  /\ hloc = [h \in Threads |-> NoLocals]
  /\ resp = [h \in Threads |-> "none"]
  /\ sent = <<>>
  /\ lastSet = [p \in LeafPaths |-> Absent]
  /\ owed = 0
  /\ pushed = <<>>
  /\ nSets = 0
  /\ nSubscribes = 0
  /\ channel = NoChannel
  /\ metaData = [p \in NodePaths |-> ""]
  /\ pubkey = "secret"
  /\ rwMutex = "free"

\* requests arrive between the construction of the engine and its shutdown
EngineAlive == mainPc = "running"

\* the handler hands its response to the transport and takes the next request
Return(h) ==
  /\ hpc[h] = "return"
  /\ hpc' = [hpc EXCEPT ![h] = "idle"]
  /\ hloc' = [hloc EXCEPT ![h] = NoLocals]
  /\ resp' = [resp EXCEPT ![h] = "none"]
  /\ UNCHANGED <<rwMutex, pubkey, channel, metaData, vss_tree, subscribeHandle, buffer,
                 subMutex, threadRun, workerPc, newSub, mainPc, sent, lastSet, owed,
                 nSets, nSubscribes, pushed>>

(***************************************************************************)
(* vssdatabase                                                             *)
(***************************************************************************)
\* pthread_mutex_lock(&rwMutex) returns when no thread holds the mutex
TreeFree == rwMutex = "free"

\* the path resolution of a database call takes the mutex and gives it back
\* in every round
Resolves(tokens) == TreeFree /\ ~getVSSSpecificPath(tokens).locked

\* A get, getMetadata or set whose path makes a query of getVSSSpecificPath
\* throw.  The function returns "" with rwMutex locked; its caller goes on
\* to its own pthread_mutex_lock (getPathForGet line 120, getPathForMetadata
\* line 110, setSignal line 322), which does not return for a mutex the
\* thread holds itself: the request stays there.
ResolveThrows(h, tokens) ==
  /\ EngineAlive
  /\ hpc[h] = "idle"
  /\ TreeFree
  /\ getVSSSpecificPath(tokens).locked
  /\ rwMutex' = h
  /\ hpc' = [hpc EXCEPT ![h] = "tree_lock"]
  /\ hloc' = [hloc EXCEPT ![h] = [Locals(h) EXCEPT !.tokens = tokens]]
  /\ UNCHANGED <<pubkey, channel, metaData, vss_tree, subscribeHandle, buffer, subMutex,
                 threadRun, workerPc, newSub, mainPc, resp, sent, lastSet, owed, nSets,
                 nSubscribes, pushed>>

\* the node a JSON path without wildcard names
JsonPathNode(jPath) == PatternNames(jPath)

\* setJsonValue taking the branch of UInt8 for every datatype
MutSetJsonValueUnsigned(tree, q) == AsType("UInt8", tree[q])

\* setJsonValue: the stored value converted by the leaf's datatype
setJsonValue(tree, q) == AsType(TreeNodes[q].type, tree[q])

\* one {path: value} entry of getSignal, "---" for a leaf without a value
SignalEntry(tree, jPath) ==
  LET q == JsonPathNode(jPath)
  IN [path |-> getReadablePath(jPath),
      value |-> IF tree[q] # Absent THEN setJsonValue(tree, q) ELSE NoValue]

\* getSignal: no member at all when nothing matches; for a branch a map of
\* the leaves below; for one leaf its path and value; else an array.  The
\* paths are taken from the back of the list.
getSignal(tree, tokens) ==
  LET jPaths == getPathForGet(tokens)
      isBranch == getVSSSpecificPath(tokens).isBranch
      pathsFound == Len(jPaths)
      entries == [i \in 1..pathsFound |-> SignalEntry(tree, jPaths[pathsFound + 1 - i])]
  IN IF pathsFound = 0
     THEN [kind |-> "empty", path |-> <<>>, value |-> Absent, entries |-> <<>>]
     ELSE IF isBranch
     THEN [kind |-> "map", path |-> <<>>, value |-> Absent, entries |-> entries]
     ELSE IF pathsFound = 1
     THEN [kind |-> "single", path |-> entries[1].path, value |-> entries[1].value,
           entries |-> <<>>]
     ELSE [kind |-> "array", path |-> <<>>, value |-> Absent, entries |-> entries]

\* getPathForSet for a value that is not an array: one (path, value) item,
\* or the exception for a path that ends at a branch
getPathForSet(tokens, values) ==
  LET r == getVSSSpecificPath(tokens)
  IN IF r.isBranch THEN [exc |-> "genException", path |-> <<>>, value |-> values]
     ELSE [exc |-> "", path |-> r.path, value |-> values]

\* setSignal up to the conversion of the value (lines 312-366): the outcome
\* is an exception or the leaf and the value to store
SetConversion(tokens, valueJson) ==
  LET item == getPathForSet(tokens, valueJson)
      resArray == json_query(item.path)
  IN IF item.exc # "" THEN [exc |-> item.exc, node |-> <<>>, value |-> Absent]
     ELSE IF Cardinality(resArray) = 1 THEN
        LET q == FirstMatch(resArray)
            val == AsType(TreeNodes[q].type, item.value)
        IN IF TreeNodes[q].type \notin SupportedTypes
           THEN [exc |-> "genException", node |-> <<>>, value |-> Absent]
           ELSE IF val = Thrown
           THEN [exc |-> "json_exception", node |-> <<>>, value |-> Absent]
           ELSE [exc |-> "", node |-> q, value |-> val]
     ELSE [exc |-> "genException", node |-> <<>>, value |-> Absent]

\* setSignal, first part: resolve the path, read the leaf, convert the value
SetSignalBegin(h, tokens, valueJson) ==
  /\ EngineAlive
  /\ hpc[h] = "idle"
  /\ Resolves(tokens)
  /\ nSets < MaxSets
  /\ LET c == SetConversion(tokens, valueJson)
     IN IF c.exc # ""
        THEN /\ resp' = [resp EXCEPT ![h] = c.exc]
             /\ hpc' = [hpc EXCEPT ![h] = "return"]
             /\ hloc' = [hloc EXCEPT ![h] = [Locals(h) EXCEPT !.request = valueJson,
                                                             !.tokens = tokens]]
             /\ UNCHANGED nSets
        ELSE /\ nSets' = nSets + 1
             /\ hpc' = [hpc EXCEPT ![h] = "set_write"]
             /\ hloc' = [hloc EXCEPT ![h] = [Locals(h) EXCEPT !.path = c.node,
                                                             !.value = c.value,
                                                             !.uuid = TreeNodes[c.node].uuid,
                                                             !.request = valueJson,
                                                             !.tokens = tokens]]
             /\ UNCHANGED resp
  /\ UNCHANGED <<rwMutex, pubkey, channel, metaData, vss_tree, subscribeHandle, buffer,
                 subMutex, threadRun, workerPc, newSub, mainPc, sent, lastSet, owed,
                 nSubscribes, pushed>>

\* the subscription ids updateByUUID walks: those of the signal, none when
\* the uuid has no entry
Subscribers(handle, uuid) ==
  IF uuid \in DOMAIN handle THEN DOMAIN handle[uuid] ELSE {}

\* json_replace(vss_tree, jPath, resJson)
json_replace(tree, q, value) == [tree EXCEPT ![q] = value]

\* setSignal, second part: json_replace under rwMutex, then the call of the
\* subscription engine, which finds the signal's subscriptions
SetSignalWrite(h) ==
  /\ hpc[h] = "set_write"
  /\ TreeFree
  /\ vss_tree' = json_replace(vss_tree, hloc[h].path, hloc[h].value)
  /\ lastSet' = [lastSet EXCEPT ![hloc[h].path] = hloc[h].request]
  /\ hloc' = [hloc EXCEPT ![h].pending = Subscribers(subscribeHandle, hloc[h].uuid),
                          ![h].written = @ \cup {hloc[h].path}]
  /\ owed' = owed + Cardinality(Subscribers(subscribeHandle, hloc[h].uuid))
  /\ hpc' = [hpc EXCEPT ![h] = "set_update"]
  /\ UNCHANGED <<rwMutex, pubkey, channel, metaData, subscribeHandle, buffer, subMutex,
                 threadRun, workerPc, newSub, mainPc, resp, sent, nSets, nSubscribes,
                 pushed>>

\* a push that overwrites a waiting event of the same subscription
MutPushCoalesce(buf, subID, value) ==
  IF buf # <<>> /\ buf[Len(buf)].subId = subID
  THEN [buf EXCEPT ![Len(buf)] = [subId |-> subID, value |-> value]]
  ELSE Append(buf, [subId |-> subID, value |-> value])

\* buffer.push(newSub)
PushEvent(buf, subID, value) == Append(buf, [subId |-> subID, value |-> value])

\* updateByUUID, one round of its loop: lock, push, unlock
UpdateByUUIDPush(h) ==
  /\ hpc[h] = "set_update"
  /\ subMutex = "free"
  /\ \E subID \in hloc[h].pending :
       /\ buffer' = PushEvent(buffer, subID, hloc[h].value)
       /\ pushed' = Append(pushed, [subId |-> subID, value |-> hloc[h].value])
       /\ hloc' = [hloc EXCEPT ![h].pending = @ \ {subID}, ![h].events = @ + 1]
  /\ UNCHANGED <<rwMutex, pubkey, channel, metaData, vss_tree, subscribeHandle,
                 subMutex, threadRun, workerPc, newSub, mainPc, hpc, resp, sent,
                 lastSet, owed, nSets, nSubscribes>>

\* updateByUUID and setSignal return
SetSignalReturn(h) ==
  /\ hpc[h] = "set_update"
  /\ hloc[h].pending = {}
  /\ hloc[h].items = <<>>
  /\ hpc' = [hpc EXCEPT ![h] = "return"]
  /\ resp' = [resp EXCEPT ![h] = "ok"]
  /\ UNCHANGED <<rwMutex, pubkey, channel, metaData, vss_tree, subscribeHandle, buffer,
                 subMutex, threadRun, workerPc, newSub, mainPc, hloc, sent, lastSet,
                 owed, nSets, nSubscribes, pushed>>

(***************************************************************************)
(* SubscriptionHandler                                                     *)
(***************************************************************************)
\* subId = channelID + rand() % 9999999.  The connection ids of the model
\* lie below 2^31 - RAND_SPAN, where the uint32_t sum cannot wrap.
NewSubId(channelID, r) == channelID + r

\* clientID = channelID / CLIENT_MASK
ClientOf(channelID) == channelID \div CLIENT_MASK

\* subscribeHandle[sigUUID][subId] = clientID
InsertSubscription(handle, sigUUID, subId, clientID) ==
  IF sigUUID \in DOMAIN handle
  THEN [handle EXCEPT ![sigUUID] =
          [s \in DOMAIN @ \cup {subId} |-> IF s = subId THEN clientID ELSE @[s]]]
  ELSE handle @@ (sigUUID :> (subId :> clientID))

\* subscribe.  r is the value of rand() % 9999999, access the answer of
\* checkReadAccess for the channel.
subscribe(h, channelID, r, tokens, access) ==
  /\ EngineAlive
  /\ hpc[h] = "idle"
  /\ nSubscribes < MaxSubscribes
  /\ hpc' = [hpc EXCEPT ![h] = "return"]
  /\ LET subId == NewSubId(channelID, r)
         jPath == getVSSSpecificPath(tokens).path
         clientID == ClientOf(channelID)
         resArray == json_query(jPath)
     IN /\ hloc' = [hloc EXCEPT ![h] = [Locals(h) EXCEPT !.channelID = channelID,
                                                        !.subId = subId,
                                                        !.tokens = tokens,
                                                        !.access = access]]
        /\ IF jPath = <<>>
           THEN /\ resp' = [resp EXCEPT ![h] = "noPathFoundonTree"]
                /\ UNCHANGED <<subscribeHandle, nSubscribes>>
           ELSE IF ~access
           THEN /\ resp' = [resp EXCEPT ![h] = "noPermissionException"]
                /\ UNCHANGED <<subscribeHandle, nSubscribes>>
           ELSE IF Cardinality(resArray) = 1
           THEN /\ subscribeHandle' =
                     InsertSubscription(subscribeHandle,
                                        TreeNodes[FirstMatch(resArray)].uuid,
                                        subId, clientID)
                /\ nSubscribes' = nSubscribes + 1
                /\ resp' = [resp EXCEPT ![h] = "subscribed"]
           ELSE /\ resp' = [resp EXCEPT ![h] = "noPathFoundonTree"]
                /\ UNCHANGED <<subscribeHandle, nSubscribes>>
  /\ UNCHANGED <<rwMutex, pubkey, channel, metaData, vss_tree, buffer, subMutex,
                 threadRun, workerPc, newSub, mainPc, sent, lastSet, owed, nSets,
                 pushed>>

\* an erase that leaves the map as it is
MutEraseNothing(subscriptions, ids) == subscriptions

\* an inner map without the given subscription ids
EraseAll(subscriptions, ids) ==
  [s \in DOMAIN subscriptions \ ids |-> subscriptions[s]]

\* an unsubscribe that reports an id it did not find
MutUnsubscribeReturnNotFound(handle, subscribeID) ==
  IF \E u \in DOMAIN handle : subscribeID \in DOMAIN handle[u] THEN 0 ELSE 1

\* the value unsubscribe returns: 0 after the loop, whatever it found
unsubscribeReturn(handle, subscribeID) == 0

\* unsubscribe: erase the id from the map of every signal; returns 0
unsubscribe(h, subscribeID) ==
  /\ EngineAlive
  /\ hpc[h] = "idle"
  /\ subscribeHandle' = [u \in DOMAIN subscribeHandle |->
                           EraseAll(subscribeHandle[u], {subscribeID})]
  /\ hpc' = [hpc EXCEPT ![h] = "return"]
  /\ hloc' = [hloc EXCEPT ![h] =
                [Locals(h) EXCEPT !.subId = subscribeID,
                                  !.res = unsubscribeReturn(subscribeHandle, subscribeID)]]
  /\ resp' = [resp EXCEPT ![h] = "unsubscribed"]
  /\ UNCHANGED <<rwMutex, pubkey, channel, metaData, vss_tree, buffer, subMutex,
                 threadRun, workerPc, newSub, mainPc, sent, lastSet, owed, nSets,
                 nSubscribes, pushed>>

\* the entries unsubscribeAll has to erase, as (uuid, subscription id) pairs
ClientEntries(handle, connectionID) ==
  {e \in UNION {{<<u, s>> : s \in DOMAIN handle[u]} : u \in DOMAIN handle} :
     handle[e[1]][e[2]] = connectionID \div CLIENT_MASK}

\* What the loops of unsubscribeAll can erase.  In the map of one signal the
\* loop erases the element its range-for iterator points at and then advances
\* the invalidated iterator: the first matching entry is erased, what follows
\* is undefined (the walk goes on, or ends early).  The order of an
\* unordered_map being arbitrary, any subset of the matching entries that
\* holds at least one entry of every signal with a match can be the erased one.
ErasedByLoop(handle, connectionID) ==
  LET matching == ClientEntries(handle, connectionID)
  IN {ids \in SUBSET matching :
        \A e \in matching : \E d \in ids : d[1] = e[1]}

\* unsubscribeAll; returns 0
unsubscribeAll(h, connectionID) ==
  /\ EngineAlive
  /\ hpc[h] = "idle"
  /\ \E erased \in ErasedByLoop(subscribeHandle, connectionID) :
       subscribeHandle' = [u \in DOMAIN subscribeHandle |->
                             EraseAll(subscribeHandle[u],
                                      {e[2] : e \in {d \in erased : d[1] = u}})]
  /\ hpc' = [hpc EXCEPT ![h] = "return"]
  /\ hloc' = [hloc EXCEPT ![h] = [Locals(h) EXCEPT !.channelID = connectionID]]
  /\ resp' = [resp EXCEPT ![h] = "unsubscribedAll"]
  /\ UNCHANGED <<rwMutex, pubkey, channel, metaData, vss_tree, buffer, subMutex,
                 threadRun, workerPc, newSub, mainPc, sent, lastSet, owed, nSets,
                 nSubscribes, pushed>>

\* isThreadRunning
isThreadRunning == threadRun

\* subThreadRunner: the test of the while loop
WorkerTest ==
  /\ workerPc = "check"
  /\ workerPc' = IF isThreadRunning THEN "lock" ELSE "exited"
  /\ UNCHANGED <<rwMutex, pubkey, channel, metaData, vss_tree, subscribeHandle, buffer,
                 subMutex, threadRun, newSub, mainPc, hpc, hloc, resp, sent, lastSet,
                 owed, nSets, nSubscribes, pushed>>

\* the worker taking the newest event: buffer.back()
MutBufferBack(buf) == buf[Len(buf)]

\* the event buffer.front() yields
BufferFront(buf) == Head(buf)

\* a pop that drops the event behind the front as well
MutPopTwo(buf) == IF Len(buf) > 1 THEN Tail(Tail(buf)) ELSE Tail(buf)

\* the buffer after buffer.pop()
BufferPop(buf) == Tail(buf)

\* subMutex.lock() and the test of the buffer: with an event, take it from
\* the front and go on to send it; without, unlock and sleep
WorkerLock ==
  /\ workerPc = "lock"
  /\ subMutex = "free"
  /\ IF Len(buffer) > 0
     THEN /\ newSub' = BufferFront(buffer)
          /\ buffer' = BufferPop(buffer)
          /\ subMutex' = "worker"
          /\ workerPc' = "send"
     ELSE /\ workerPc' = "check"
          /\ UNCHANGED <<newSub, buffer, subMutex>>
  /\ UNCHANGED <<rwMutex, pubkey, channel, metaData, vss_tree, subscribeHandle,
                 threadRun, mainPc, hpc, hloc, resp, sent, lastSet, owed, nSets,
                 nSubscribes, pushed>>

\* connectionID = (subID / CLIENT_MASK) * CLIENT_MASK
ConnectionOf(subID) == (subID \div CLIENT_MASK) * CLIENT_MASK

\* getServer()->sendToConnection(connectionID, message), then
\* subMutex.unlock() and the sleep of 10 ms
WorkerSend ==
  /\ workerPc = "send"
  /\ sent' = Append(sent, [conn |-> ConnectionOf(newSub.subId), subId |-> newSub.subId,
                           value |-> newSub.value])
  /\ subMutex' = "free"
  /\ workerPc' = "check"
  /\ newSub' = NoEvent
  /\ UNCHANGED <<rwMutex, pubkey, channel, metaData, vss_tree, subscribeHandle, buffer,
                 threadRun, mainPc, hpc, hloc, resp, lastSet, owed, nSets, nSubscribes,
                 pushed>>

\* startThread after the creation of the thread: threadRun = true
startThread ==
  /\ mainPc = "start"
  /\ threadRun' = TRUE
  /\ mainPc' = "running"
  /\ UNCHANGED <<rwMutex, pubkey, channel, metaData, vss_tree, subscribeHandle, buffer,
                 subMutex, workerPc, newSub, hpc, hloc, resp, sent, lastSet, owed,
                 nSets, nSubscribes, pushed>>

\* stopThread: subMutex.lock(); threadRun = false
stopThread ==
  /\ mainPc = "running"
  /\ subMutex = "free"
  /\ subMutex' = "main"
  /\ threadRun' = FALSE
  /\ mainPc' = "join"
  /\ UNCHANGED <<rwMutex, pubkey, channel, metaData, vss_tree, subscribeHandle, buffer,
                 workerPc, newSub, hpc, hloc, resp, sent, lastSet, owed, nSets,
                 nSubscribes, pushed>>

\* stopThread: subThread.join() returns once the worker has left its
\* function; then subMutex.unlock() and return
stopThreadJoin ==
  /\ mainPc = "join"
  /\ workerPc = "exited"
  /\ subMutex' = "free"
  /\ mainPc' = "done"
  /\ UNCHANGED <<rwMutex, pubkey, channel, metaData, vss_tree, subscribeHandle, buffer,
                 threadRun, workerPc, newSub, hpc, hloc, resp, sent, lastSet, owed,
                 nSets, nSubscribes, pushed>>

\* the subscription ids a client can name in an unsubscribe request
KnownSubIds == UNION {DOMAIN subscribeHandle[u] : u \in DOMAIN subscribeHandle}
UnknownSubId == 42

subThreadRunner == WorkerTest \/ WorkerLock \/ WorkerSend

Owner == startThread \/ stopThread \/ stopThreadJoin

setSignal(h, paths, values) ==
  \/ \E tokens \in paths, v \in values : SetSignalBegin(h, tokens, v)
  \/ SetSignalWrite(h)
  \/ UpdateByUUIDPush(h)
  \/ SetSignalReturn(h)

(***************************************************************************)
(* The subscription engine with its worker and owner; the handler sets a  *)
(* leaf and subscribes to two leaves for two connections.                  *)
(***************************************************************************)
EngineConnIds == {TestConnId, CLIENT_MASK}

Handler(h) ==
  \/ setSignal(h, {Lateral}, {JInt(10), JInt(20)})
  \/ \E c \in EngineConnIds, tokens \in {Lateral, Speed} :
       subscribe(h, c, SmallSuffix, tokens, TRUE)
  \/ \E id \in KnownSubIds \cup {UnknownSubId} : unsubscribe(h, id)
  \/ \E c \in EngineConnIds : unsubscribeAll(h, c)
  \/ Return(h)

Next == subThreadRunner \/ Owner \/ \E h \in Handlers : Handler(h)

Spec == Init /\ [][Next]_vars

(***************************************************************************)
(* The delivery path: sets of a leaf, subscriptions to it for two          *)
(* connections, their removal by id, the worker and the owner.  The worker *)
(* is a thread of its own: the scheduler lets it run.                      *)
(***************************************************************************)
NextDelivery ==
  \/ subThreadRunner
  \/ Owner
  \/ \E h \in Handlers :
       \/ setSignal(h, {Lateral}, {JInt(10)})
       \/ \E c \in EngineConnIds : subscribe(h, c, SmallSuffix, Lateral, TRUE)
       \/ \E id \in KnownSubIds : unsubscribe(h, id)
       \/ Return(h)

FairSpec == Init /\ [][NextDelivery]_vars /\ WF_vars(subThreadRunner)

(***************************************************************************)
(* The bookkeeping of the subscriptions alone, for connection ids and      *)
(* random suffixes over their whole range.                                 *)
(***************************************************************************)
ConnIds == {TestConnId, CLIENT_MASK, 2 * CLIENT_MASK}
RandSuffixes == {SmallSuffix, RAND_SPAN - 1}

NextIds ==
  \/ startThread
  \/ \E h \in Handlers :
       \/ \E c \in ConnIds, r \in RandSuffixes,
             tokens \in {Lateral, Speed, Acceleration, InvalidPath}, access \in BOOLEAN :
            subscribe(h, c, r, tokens, access)
       \/ \E id \in KnownSubIds \cup {UnknownSubId} : unsubscribe(h, id)
       \/ \E c \in ConnIds : unsubscribeAll(h, c)
       \/ Return(h)

SpecIds == Init /\ [][NextIds]_vars

(***************************************************************************)
(* The signal tree alone: sets of every kind of leaf with values inside    *)
(* and outside the leaf's datatype.                                        *)
(***************************************************************************)
TreePaths == {Lateral, Vertical, Speed, Moving, VIN, Acceleration, InvalidPath}
TreeValues == {JInt(0 - 5), JInt(10), JInt(200), JInt(300), JInt(16777217),
               JBool(TRUE), JStr("abc")}

NextTree ==
  \/ startThread
  \/ \E h \in Handlers :
       \/ \E tokens \in TreePaths, v \in TreeValues : SetSignalBegin(h, tokens, v)
       \/ SetSignalWrite(h)
       \/ SetSignalReturn(h)
       \/ Return(h)

SpecTree == Init /\ [][NextTree]_vars

(***************************************************************************)
(* vssdatabase: sets with an array of values, and sets of a channel        *)
(***************************************************************************)
\* one element of a value array: an object with the member name: value;
\* members is the number of members of the object
Item(name, value) == [name |-> name, value |-> value, members |-> 1]

\* the request path up to its first "*" (path.find("*")), the whole path
\* without one
ArrayPrefix(tokens) ==
  IF \E i \in 1..Len(tokens) : tokens[i] = "*"
  THEN SubSeq(tokens, 1, (CHOOSE i \in 1..Len(tokens) :
                             /\ tokens[i] = "*"
                             /\ \A j \in 1..(i - 1) : tokens[j] # "*") - 1)
  ELSE tokens

\* getPathForSet for an array that lets an element naming a branch pass
MutGetPathForSetArrayNoBranchTest(tokens, values) ==
  [exc |-> "",
   items |-> [i \in 1..Len(values) |->
                [path |-> getVSSSpecificPath(Append(ArrayPrefix(tokens), values[i].name)).path,
                 value |-> values[i].value]]]

\* getPathForSet for an array of values: per element the path with the
\* element's name in the place of the "*" and what follows it, resolved by
\* getVSSSpecificPath.  An element that is not an object of one member, or
\* whose path ends at a branch, makes the call throw.
getPathForSetArray(tokens, values) ==
  LET prefix == ArrayPrefix(tokens)
      resolved == [i \in 1..Len(values) |->
                     getVSSSpecificPath(Append(prefix, values[i].name))]
  IN IF \E i \in 1..Len(values) : values[i].members # 1 \/ resolved[i].isBranch
     THEN [exc |-> "genException", items |-> <<>>]
     ELSE [exc |-> "",
           items |-> [i \in 1..Len(values) |->
                        [path |-> resolved[i].path, value |-> values[i].value]]]

\* setSignal with an array: getPathForSet, then the loop over the items
SetArrayBegin(h, tokens, values) ==
  /\ EngineAlive
  /\ hpc[h] = "idle"
  /\ TreeFree
  /\ nSets < MaxSets
  /\ LET r == getPathForSetArray(tokens, values)
     IN IF r.exc # ""
        THEN /\ resp' = [resp EXCEPT ![h] = r.exc]
             /\ hpc' = [hpc EXCEPT ![h] = "return"]
             /\ hloc' = [hloc EXCEPT ![h] = [Locals(h) EXCEPT !.tokens = tokens,
                                                             !.values = values]]
             /\ UNCHANGED nSets
        ELSE /\ nSets' = nSets + 1
             /\ hpc' = [hpc EXCEPT ![h] = "set_item"]
             /\ hloc' = [hloc EXCEPT ![h] = [Locals(h) EXCEPT !.tokens = tokens,
                                                             !.values = values,
                                                             !.items = r.items]]
             /\ UNCHANGED resp
  /\ UNCHANGED <<rwMutex, pubkey, channel, metaData, vss_tree, subscribeHandle, buffer,
                 subMutex, threadRun, workerPc, newSub, mainPc, sent, lastSet, owed,
                 nSubscribes, pushed>>

\* the loop of setSignal for the next item (lines 315-366): query its path,
\* convert its value
SetItemConversion(item) ==
  LET resArray == json_query(item.path)
  IN IF Cardinality(resArray) = 1 THEN
        LET q == FirstMatch(resArray)
            val == AsType(TreeNodes[q].type, item.value)
        IN IF TreeNodes[q].type \notin SupportedTypes
           THEN [exc |-> "genException", node |-> <<>>, value |-> Absent]
           ELSE IF val = Thrown
           THEN [exc |-> "json_exception", node |-> <<>>, value |-> Absent]
           ELSE [exc |-> "", node |-> q, value |-> val]
     ELSE [exc |-> "genException", node |-> <<>>, value |-> Absent]

SetArrayItem(h) ==
  /\ hpc[h] = "set_item"
  /\ TreeFree
  /\ IF hloc[h].items = <<>>
     THEN /\ hpc' = [hpc EXCEPT ![h] = "return"]
          /\ resp' = [resp EXCEPT ![h] = "ok"]
          /\ UNCHANGED hloc
     ELSE LET c == SetItemConversion(Head(hloc[h].items))
          IN IF c.exc # ""
             THEN /\ hpc' = [hpc EXCEPT ![h] = "return"]
                  /\ resp' = [resp EXCEPT ![h] = c.exc]
                  /\ UNCHANGED hloc
             ELSE /\ hpc' = [hpc EXCEPT ![h] = "set_write"]
                  /\ hloc' = [hloc EXCEPT ![h].path = c.node,
                                          ![h].value = c.value,
                                          ![h].uuid = TreeNodes[c.node].uuid,
                                          ![h].request = Head(hloc[h].items).value,
                                          ![h].items = Tail(@)]
                  /\ UNCHANGED resp
  /\ UNCHANGED <<rwMutex, pubkey, channel, metaData, vss_tree, subscribeHandle, buffer,
                 subMutex, threadRun, workerPc, newSub, mainPc, sent, lastSet, owed,
                 nSets, nSubscribes, pushed>>

\* the loop of setSignal goes on to the next item
SetArrayNext(h) ==
  /\ hpc[h] = "set_update"
  /\ hloc[h].pending = {}
  /\ hloc[h].items # <<>>
  /\ hpc' = [hpc EXCEPT ![h] = "set_item"]
  /\ UNCHANGED <<rwMutex, pubkey, channel, metaData, vss_tree, subscribeHandle, buffer,
                 subMutex, threadRun, workerPc, newSub, mainPc, hloc, resp, sent,
                 lastSet, owed, nSets, nSubscribes, pushed>>

\* setSignal(channel, path, value): the write permission of the channel is
\* checked before the tree is touched; without it the call throws
\* noPermissionException
SetSignalChannel(h, tokens, valueJson, access) ==
  IF access
  THEN SetSignalBegin(h, tokens, valueJson)
  ELSE /\ EngineAlive
       /\ hpc[h] = "idle"
       /\ hpc' = [hpc EXCEPT ![h] = "return"]
       /\ resp' = [resp EXCEPT ![h] = "noPermissionException"]
       /\ hloc' = [hloc EXCEPT ![h] = [Locals(h) EXCEPT !.request = valueJson,
                                                       !.tokens = tokens,
                                                       !.access = FALSE]]
       /\ UNCHANGED <<rwMutex, pubkey, channel, metaData, vss_tree, subscribeHandle,
                      buffer, subMutex, threadRun, workerPc, newSub, mainPc, sent,
                      lastSet, owed, nSets, nSubscribes, pushed>>

(***************************************************************************)
(* vsscommandprocessor: the responses and the get handlers                 *)
(***************************************************************************)
\* a not-found answer that carries the number of the no-access answer
MutPathNotFoundForbidden == [NoAnswer EXCEPT !.number = 403, !.reason = "Forbidden"]

\* pathNotFoundResponse
pathNotFoundResponse == [NoAnswer EXCEPT !.number = 404, !.reason = "Path not found"]
\* noAccessResponse
noAccessResponse == [NoAnswer EXCEPT !.number = 403, !.reason = "Forbidden"]
\* valueOutOfBoundsResponse
valueOutOfBoundsResponse ==
  [NoAnswer EXCEPT !.number = 400, !.reason = "Value passed is out of bounds"]
\* malFormedRequestResponse
malFormedRequestResponse == [NoAnswer EXCEPT !.number = 400, !.reason = "Bad Request"]

\* a processSet that answers every exception with the unknown error
MutProcessSetUnknown(outcome) ==
  IF outcome = "ok" THEN NoAnswer
  ELSE [NoAnswer EXCEPT !.number = 401, !.reason = "Unknown error"]

\* processSet: the response for the outcome of setSignal, "ok" or the
\* exception it threw.  An exception of another class leaves processSet.
processSet(outcome) ==
  CASE outcome = "ok" -> NoAnswer
    [] outcome = "genException" -> [NoAnswer EXCEPT !.number = 401, !.reason = "Unknown error"]
    [] outcome = "noPathFoundonTree" -> pathNotFoundResponse
    [] outcome = "outOfBoundException" -> valueOutOfBoundsResponse
    [] outcome = "noPermissionException" -> noAccessResponse
    [] OTHER -> [NoAnswer EXCEPT !.number = 0 - 1, !.reason = "uncaught"]

\* p names q or a node above q
IsPrefix(p, q) == Len(p) <= Len(q) /\ SubSeq(q, 1, Len(p)) = p

\* IVssDatabase::getLeafPaths: the dotted paths of the leaves a path names,
\* in the order of the path resolution
getLeafPaths(tokens) ==
  LET jPaths == getPathForGet(tokens)
  IN [i \in 1..Len(jPaths) |-> getReadablePath(jPaths[i])]

\* getSignal of one leaf: its path and its value, "---" for none
getSignalLeaf(tree, q) == SignalEntry(tree, NodeJsonPath(q))

\* a filter that lets every path pass
MutCheckReadAccessAll(readable, q) == TRUE

\* checkReadAccess(channel, vssPath): readable holds the leaves the channel's
\* permissions allow to read
checkReadAccess(readable, q) == q \in readable

\* processGet2.  The loop sorts the leaves into noPermissionPaths and
\* valueArray; then the tests of lines 80-100 in their order.  For one leaf
\* the value is taken as valueArray[0][pathStr]: the member named by the
\* request path of a record whose members are "path" and "value".  No path
\* that names a leaf is called "path" or "value": the JSON library answers
\* with an exception, caught at line 101.
processGet2(tree, tokens, readable) ==
  LET vssPaths == getLeafPaths(tokens)
      noPermissionPaths == SelectSeq(vssPaths, LAMBDA q : ~checkReadAccess(readable, q))
      permitted == SelectSeq(vssPaths, LAMBDA q : checkReadAccess(readable, q))
      valueArray == [i \in 1..Len(permitted) |-> getSignalLeaf(tree, permitted[i])]
  IN IF Len(vssPaths) < 1 THEN [pathNotFoundResponse EXCEPT !.leaves = vssPaths]
     ELSE IF Len(vssPaths) = Len(noPermissionPaths)
     THEN [noAccessResponse EXCEPT !.leaves = vssPaths]
     ELSE IF Len(vssPaths) = 1
     THEN [malFormedRequestResponse EXCEPT !.leaves = vssPaths]
     ELSE [NoAnswer EXCEPT !.entries = valueArray, !.warning = noPermissionPaths,
                           !.leaves = vssPaths]

\* processGet: 404 for an answer of getSignal without a "value" member
processGet(tree, tokens) ==
  LET res == getSignal(tree, tokens)
  IN IF res.kind = "empty"
     THEN [pathNotFoundResponse EXCEPT !.leaves = getPathForGet(tokens)]
     ELSE [NoAnswer EXCEPT !.path = res.path, !.value = res.value,
                           !.entries = res.entries, !.leaves = getPathForGet(tokens)]

\* a get request handled by processGet2 on a channel with the given read
\* permissions
Get2Request(h, tokens, readable) ==
  /\ EngineAlive
  /\ hpc[h] = "idle"
  /\ hpc' = [hpc EXCEPT ![h] = "return"]
  /\ resp' = [resp EXCEPT ![h] = "get2"]
  /\ hloc' = [hloc EXCEPT ![h] = [Locals(h) EXCEPT !.tokens = tokens,
                                                  !.readable = readable,
                                                  !.answer = processGet2(vss_tree, tokens, readable)]]
  /\ UNCHANGED <<rwMutex, pubkey, channel, metaData, vss_tree, subscribeHandle, buffer,
                 subMutex, threadRun, workerPc, newSub, mainPc, sent, lastSet, owed,
                 nSets, nSubscribes, pushed>>

\* a get request handled by processGet
GetRequest(h, tokens) ==
  /\ EngineAlive
  /\ hpc[h] = "idle"
  /\ Resolves(tokens)
  /\ hpc' = [hpc EXCEPT ![h] = "return"]
  /\ resp' = [resp EXCEPT ![h] = "get"]
  /\ hloc' = [hloc EXCEPT ![h] = [Locals(h) EXCEPT !.tokens = tokens,
                                                  !.answer = processGet(vss_tree, tokens)]]
  /\ UNCHANGED <<rwMutex, pubkey, channel, metaData, vss_tree, subscribeHandle, buffer,
                 subMutex, threadRun, workerPc, newSub, mainPc, sent, lastSet, owed,
                 nSets, nSubscribes, pushed>>

\* getMetaData.  The node is the first match of the path; the output is the
\* chain of its ancestors, each with "children" replaced by the level below,
\* and at the bottom the node as the tree holds it, with every member and,
\* for a branch, all that lies below it.  valueFields names the leaves whose
\* "value" member is part of the output.
getMetaData(tree, tokens) ==
  LET matches == json_query(getVSSSpecificPath(tokens).path)
      node == FirstMatch(matches)
  IN [NoAnswer EXCEPT !.path = node,
                      !.valueFields = {q \in LeafPaths : IsPrefix(node, q) /\ tree[q] # Absent}]

\* a getMetadata request.  For a path without a match getPathForMetadata
\* reads element 0 of an empty array: the request ends with null or with an
\* exception.
GetMetaDataRequest(h, tokens) ==
  /\ EngineAlive
  /\ hpc[h] = "idle"
  /\ Resolves(tokens)
  /\ hpc' = [hpc EXCEPT ![h] = "return"]
  /\ IF json_query(getVSSSpecificPath(tokens).path) = {}
     THEN /\ resp' \in {[resp EXCEPT ![h] = r] : r \in {"metadataNull", "exception"}}
          /\ hloc' = [hloc EXCEPT ![h] = [Locals(h) EXCEPT !.tokens = tokens]]
     ELSE /\ resp' = [resp EXCEPT ![h] = "metadata"]
          /\ hloc' = [hloc EXCEPT ![h] = [Locals(h) EXCEPT !.tokens = tokens,
                                                          !.answer = getMetaData(vss_tree, tokens)]]
  /\ UNCHANGED <<rwMutex, pubkey, channel, metaData, vss_tree, subscribeHandle, buffer,
                 subMutex, threadRun, workerPc, newSub, mainPc, sent, lastSet, owed,
                 nSets, nSubscribes, pushed>>

(***************************************************************************)
(* The read side: sets of two leaves, then gets of leaf, branch, wildcard   *)
(* and unknown paths on channels with every set of read permissions, and    *)
(* metadata queries.                                                        *)
(***************************************************************************)
AccelerationAll == <<"Vehicle", "Acceleration", "*">>
VehicleRoot == <<"Vehicle">>
VehicleAll == <<"Vehicle", "*">>
AnyLateral == <<"Vehicle", "*", "Lateral">>

GetPaths == {Lateral, Speed, Acceleration, AccelerationAll, VehicleRoot, VehicleAll,
             AnyLateral, InvalidPath}

NextGet ==
  \/ startThread
  \/ \E h \in Handlers :
       \/ \E tokens \in {Lateral, Speed}, v \in {JInt(10), JInt(20)} :
            SetSignalBegin(h, tokens, v)
       \/ SetSignalWrite(h)
       \/ SetSignalReturn(h)
       \/ \E tokens \in GetPaths, readable \in SUBSET {Lateral, Vertical, Speed} :
            Get2Request(h, tokens, readable)
       \/ \E tokens \in GetPaths : GetRequest(h, tokens)
       \/ \E tokens \in GetPaths : GetMetaDataRequest(h, tokens)
       \/ Return(h)

SpecGet == Init /\ [][NextGet]_vars

(***************************************************************************)
(* The write side: sets of a leaf and of a branch by channels with and     *)
(* without write permission, sets with arrays of named values on wildcard  *)
(* and branch paths, and a subscriber of the leaf.                         *)
(***************************************************************************)
SetItems ==
  {Item("Lateral", JInt(1)), Item("Vertical", JInt(2)), Item("Bogus", JInt(3)),
   Item("Acceleration", JInt(4)), Item("Speed", JInt(6)), Item("Vertical", JStr("abc")),
   [name |-> "Lateral", value |-> JInt(5), members |-> 2]}

ArrayValues == {<<a>> : a \in SetItems} \cup {<<a, b>> : a \in SetItems, b \in SetItems}
ArrayPaths == {AccelerationAll, Acceleration, VehicleAll}

NextSet ==
  \/ startThread
  \/ \E h \in Handlers :
       \/ subscribe(h, TestConnId, SmallSuffix, Lateral, TRUE)
       \/ \E tokens \in {Lateral, Acceleration}, v \in {JInt(10), JInt(20)},
             access \in BOOLEAN :
            SetSignalChannel(h, tokens, v, access)
       \/ \E tokens \in ArrayPaths, values \in ArrayValues : SetArrayBegin(h, tokens, values)
       \/ SetArrayItem(h)
       \/ SetArrayNext(h)
       \/ SetSignalWrite(h)
       \/ UpdateByUUIDPush(h)
       \/ SetSignalReturn(h)
       \/ Return(h)

SpecSet == Init /\ [][NextSet]_vars

(***************************************************************************)
(* Properties.                                                             *)
(***************************************************************************)
\* a request value that is a value of the datatype: an integer inside the
\* limits of an integer type, a number a float holds exactly, a boolean for
\* Boolean, a string for String
InRange(t, v) ==
  CASE t = "UInt8" -> v.k = "int" /\ v.n \in 0..255
    [] t = "Int8" -> v.k = "int" /\ v.n \in (0 - 128)..127
    [] t = "UInt16" -> v.k = "int" /\ v.n \in 0..65535
    [] t = "Int16" -> v.k = "int" /\ v.n \in (0 - 32768)..32767
    [] t \in {"Int32", "Double"} -> v.k = "int"
    [] t = "Float" -> v.k = "int" /\ (v.n % 2 = 0 \/ Abs(v.n) <= 16777216)
    [] t = "Boolean" -> v.k = "bool"
    [] t = "String" -> v.k = "str"
    [] OTHER -> FALSE

C2_SubIdEncodesClient ==
  \A u \in DOMAIN subscribeHandle :
    \A id \in DOMAIN subscribeHandle[u] :
      id \div CLIENT_MASK = subscribeHandle[u][id]

\* C3: a subscribe that succeeds yields an id no live subscription of any
\* signal holds: ids stay unique and no entry is overwritten.
C3_UniqueSubscriptionIds ==
  [][\A h \in Handlers :
       (hpc[h] = "idle" /\ hpc'[h] = "return" /\ resp'[h] = "subscribed")
         => hloc'[h].subId \notin KnownSubIds]_vars

\* C4: when unsubscribeAll(c) returns, no entry with client id
\* c / CLIENT_MASK is left under any signal.
C4_UnsubscribeAllRemovesAll ==
  \A h \in Handlers :
    (hpc[h] = "return" /\ resp[h] = "unsubscribedAll")
      => ClientEntries(subscribeHandle, hloc[h].channelID) = {}

\* the events in the order of their way through the engine: sent, held by
\* the worker, waiting in the buffer
SentEvents == [i \in 1..Len(sent) |-> [subId |-> sent[i].subId, value |-> sent[i].value]]
AllEvents ==
  SentEvents \o (IF newSub # NoEvent THEN <<newSub>> ELSE <<>>) \o buffer

PendingPushes == Cardinality(UNION {hloc[h].pending : h \in Handlers})

\* C5: every successful set enqueues exactly one event per subscription of
\* the leaf's uuid, with the value written, none for a uuid without
\* subscriptions, and no event is merged with an earlier one.
C5_NoCoalescing ==
  /\ Len(AllEvents) + PendingPushes = owed
  /\ \A h \in Handlers :
       (hpc[h] = "return" /\ resp[h] = "ok")
         => LET subs == Subscribers(subscribeHandle, hloc[h].uuid)
                n == Len(AllEvents)
                last == {AllEvents[i] : i \in (n - Cardinality(subs) + 1)..n}
            IN /\ n >= Cardinality(subs)
               /\ {e.subId : e \in last} = subs
               /\ \A e \in last : e.value = hloc[h].value
               /\ vss_tree[hloc[h].path] = hloc[h].value

C5_Witness ==
  /\ hpc["h1"] = "return" /\ resp["h1"] = "ok"
  /\ Cardinality(Subscribers(subscribeHandle, hloc["h1"].uuid)) = 2
  /\ Len(buffer) = 4
  /\ buffer[1].value # buffer[4].value

\* C6: the frames are sent in the order the events were pushed.
C6_DeliveryInEnqueueOrder ==
  /\ Len(sent) <= Len(pushed)
  /\ \A i \in 1..Len(sent) : SentEvents[i] = pushed[i]

C6_Witness ==
  /\ Len(sent) >= 3
  /\ SentEvents[1] # SentEvents[2]
  /\ SentEvents[2] # SentEvents[3]

\* the worker is in its loop and has not been told to stop
WorkerRunning == threadRun /\ workerPc # "exited" /\ mainPc = "running"

MaxEvents == MaxSets * Cardinality(EngineConnIds)

\* C7: while the worker is running, the k-th event pushed becomes the k-th
\* frame sent: every event is sent, once.
C7_EveryEventDelivered ==
  \A k \in 1..MaxEvents :
    [](Len(pushed) >= k
         => <>(~WorkerRunning \/ (Len(sent) >= k /\ SentEvents[k] = pushed[k])))

C7_Witness ==
  /\ WorkerRunning
  /\ Len(pushed) = MaxEvents
  /\ Len(sent) = MaxEvents

\* C8: a frame goes to the connection that created its subscription.
C8_FrameToCreator ==
  \A i \in 1..Len(sent) :
    \A c \in EngineConnIds :
      sent[i].subId = NewSubId(c, SmallSuffix) => sent[i].conn = c

\* C9: the worker does not hold subMutex while sendToConnection runs.
C9_NoMutexDuringSend == workerPc = "send" => subMutex # "worker"

\* C10: stopThread never waits for the worker while the worker waits for
\* the mutex stopThread holds.
C10_ShutdownCompletes ==
  ~(mainPc = "join" /\ subMutex = "main" /\ workerPc = "lock")

\* a step of a handler that reads or writes subscribeHandle: subscribe,
\* unsubscribe and unsubscribeAll, and the lookup and walk of updateByUUID
MapAccess(h) ==
  \/ /\ hpc[h] = "idle" /\ hpc'[h] = "return"
     /\ resp'[h] \in {"subscribed", "unsubscribed", "unsubscribedAll"}
  \/ hpc[h] = "set_write" /\ hpc'[h] = "set_update"

\* C11: every access to subscribeHandle or to buffer is made by a thread
\* that holds subMutex: the step that makes it finds the mutex free and takes
\* it, so it is never made while another thread holds the mutex.
C11_MapAndBufferGuarded ==
  [][((\E h \in Handlers : MapAccess(h)) \/ buffer' # buffer) => subMutex = "free"]_vars

\* the nodes a request path names, a "*" standing for any one name, and the
\* leaves at or below them
Matches(tokens) ==
  {m \in NodePaths : /\ Len(m) = Len(tokens)
                     /\ \A i \in 1..Len(m) : tokens[i] \in {"*", m[i]}}
MatchedLeaves(tokens) == {q \in LeafPaths : \E m \in Matches(tokens) : IsPrefix(m, q)}

Range(seq) == {seq[i] : i \in 1..Len(seq)}

\* what a get shows for a leaf: the value of its last set, "---" without one
ShownValue(q) == IF lastSet[q] = Absent THEN NoValue ELSE lastSet[q]

\* C12: a get of several leaves of which some are readable answers with one
\* entry per readable leaf, carrying that leaf's value, no entry for a denied
\* leaf, and a warning that lists exactly the denied leaves (none when no
\* leaf is denied).
C12_MultiGetFiltersByPermission ==
  \A h \in Handlers :
    LET a == hloc[h].answer
        leaves == MatchedLeaves(hloc[h].tokens)
        readable == hloc[h].readable
    IN (/\ hpc[h] = "return" /\ resp[h] = "get2"
        /\ Cardinality(leaves) > 1
        /\ leaves \cap readable # {})
         => /\ a.number = 0
            /\ {e.path : e \in Range(a.entries)} = leaves \cap readable
            /\ Len(a.entries) = Cardinality(leaves \cap readable)
            /\ \A e \in Range(a.entries) : e.value = ShownValue(e.path)
            /\ Range(a.warning) = leaves \ readable
            /\ Len(a.warning) = Cardinality(leaves \ readable)

C12_Witness ==
  /\ hpc["h1"] = "return" /\ resp["h1"] = "get2"
  /\ hloc["h1"].tokens = VehicleAll
  /\ hloc["h1"].readable = {Lateral}
  /\ lastSet[Lateral] = JInt(10)
  /\ lastSet[Speed] = JInt(20)
  /\ Len(hloc["h1"].answer.entries) = 1
  /\ Len(hloc["h1"].answer.warning) = 4

C14_SetWithoutPermission ==
  [][\A h \in Handlers :
       (/\ hpc[h] = "idle" /\ hpc'[h] # "idle"
        /\ hloc'[h].request # Absent
        /\ ~hloc'[h].access)
         => /\ hpc'[h] = "return"
            /\ processSet(resp'[h]).number = 403
            /\ processSet(resp'[h]).reason = "Forbidden"
            /\ vss_tree' = vss_tree
            /\ buffer' = buffer
            /\ pushed' = pushed
            /\ owed' = owed]_vars

C14_Witness ==
  /\ hpc["h1"] = "return" /\ resp["h1"] = "noPermissionException"
  /\ ~hloc["h1"].access
  /\ hloc["h1"].tokens = Lateral
  /\ hloc["h1"].request = JInt(20)
  /\ vss_tree[Lateral] = JInt(10)
  /\ Subscribers(subscribeHandle, TreeNodes[Lateral].uuid) # {}
  /\ Len(pushed) = 1

\* C15: a set of an integer leaf with a number outside the datatype's range
\* ends with the out-of-bounds exception, and the value an integer leaf holds
\* is the number of the request that stored it, never that number modulo 2^w.
C15_IntegerBounds ==
  /\ \A h \in Handlers :
       (/\ hpc[h] # "idle"
        /\ hloc[h].tokens \in LeafPaths
        /\ TreeNodes[hloc[h].tokens].type \in IntegerTypes
        /\ hloc[h].request.k = "int"
        /\ ~InRange(TreeNodes[hloc[h].tokens].type, hloc[h].request))
         => hpc[h] = "return" /\ resp[h] = "outOfBoundException"
  /\ \A p \in LeafPaths :
       (TreeNodes[p].type \in IntegerTypes /\ lastSet[p].k = "int")
         => vss_tree[p] = lastSet[p]

\* a path that names a branch of the tree
NamesBranch(tokens) == tokens \in NodePaths /\ TreeNodes[tokens].type = "branch"

\* C16: a set of a scalar on a branch path, and a set of an array with an
\* element whose path names a branch, end with an error and change no leaf.
C16_BranchSetRejected ==
  [][\A h \in Handlers :
       (/\ hpc[h] = "idle" /\ hpc'[h] # "idle"
        /\ hloc'[h].access
        /\ \/ hloc'[h].request # Absent /\ NamesBranch(hloc'[h].tokens)
           \/ \E i \in 1..Len(hloc'[h].values) :
                /\ hloc'[h].values[i].members = 1
                /\ NamesBranch(Append(ArrayPrefix(hloc'[h].tokens), hloc'[h].values[i].name)))
         => /\ hpc'[h] = "return"
            /\ processSet(resp'[h]).number # 0
            /\ vss_tree' = vss_tree
            /\ pushed' = pushed]_vars
  /\ [][\A h \in Handlers :
         (hpc[h] # "idle" /\ hpc'[h] # "idle" /\
          \E i \in 1..Len(hloc[h].values) :
             /\ \A j \in 1..Len(hloc[h].values) : hloc[h].values[j].members = 1
             /\ NamesBranch(Append(ArrayPrefix(hloc[h].tokens), hloc[h].values[i].name)))
           => vss_tree' = vss_tree]_vars

C16_Witness ==
  /\ hpc["h1"] = "return" /\ resp["h1"] = "genException"
  /\ hloc["h1"].tokens = VehicleAll
  /\ hloc["h1"].values = <<Item("Speed", JInt(6)), Item("Acceleration", JInt(4))>>
  /\ vss_tree[Speed] = Absent
  /\ vss_tree[Lateral] = JInt(10)

\* the array of a request names every element by one member
OneMemberEach(values) == \A i \in 1..Len(values) : values[i].members = 1

\* C17: a set with an array of named values gives every named child leaf the
\* value paired with its name (the last one for a name given twice), in any
\* order of the array; an array with a name that is no child fails with the
\* path error.
C17_WildcardWriteByName ==
  \A h \in Handlers :
    LET values == hloc[h].values
        prefix == ArrayPrefix(hloc[h].tokens)
        child(i) == Append(prefix, values[i].name)
    IN (hpc[h] = "return" /\ values # <<>> /\ OneMemberEach(values))
         => /\ resp[h] = "ok"
                 => \A i \in 1..Len(values) :
                      (\A j \in (i + 1)..Len(values) : values[j].name # values[i].name)
                        => /\ child(i) \in LeafPaths
                           /\ vss_tree[child(i)] = values[i].value
            /\ ((\E i \in 1..Len(values) : child(i) \notin NodePaths)
                 /\ (\A i \in 1..Len(values) : ~NamesBranch(child(i))))
                 => resp[h] \in {"noPathFoundonTree", "notValidException"}

C19_MetadataWithoutValues ==
  \A h \in Handlers :
    (hpc[h] = "return" /\ resp[h] = "metadata") => hloc[h].answer.valueFields = {}

\* C20: subscribe registers a subscription only for a path that names exactly
\* one leaf the channel may read; a path without a node fails as not found, a
\* path without read permission as forbidden, a branch fails, and the map is
\* unchanged whenever subscribe fails.
C20_SubscribeOneReadableLeaf ==
  [][\A h \in Handlers :
       (hpc[h] = "idle" /\ hpc'[h] = "return" /\ hloc'[h].channelID # 0
        /\ resp'[h] \notin {"unsubscribed", "unsubscribedAll"})
         => LET tokens == hloc'[h].tokens
            IN /\ resp'[h] = "subscribed"
                    <=> (tokens \in LeafPaths /\ hloc'[h].access)
               /\ Matches(tokens) = {} => resp'[h] = "noPathFoundonTree"
               /\ (Matches(tokens) # {} /\ ~hloc'[h].access)
                    => resp'[h] = "noPermissionException"
               /\ resp'[h] # "subscribed" => subscribeHandle' = subscribeHandle
               /\ DOMAIN subscribeHandle' \subseteq UUIDs]_vars

(***************************************************************************)
(* Authenticator and WsChannel                                             *)
(***************************************************************************)
\* the tokens of the model: two that verify and one that does not
ValidTokens == {"tokenA", "tokenB"}
Tokens == ValidTokens \cup {"bad"}

\* the key the permission management daemon sends with its token
DaemonKey == "daemonKey"
\* the key a token is signed for: tokenA for the key that processAuthorize
\* installs, tokenB for the key of the daemon
KeyOf(token) == IF token = "tokenB" THEN DaemonKey ELSE ""

\* a validate whose failure leaves the channel without its authorization
MutValidateClears(ch, token, key) ==
  IF token \in ValidTokens /\ key = KeyOf(token)
  THEN [ttl |-> 1, channel |-> [ch EXCEPT !.authorized = TRUE, !.token = token]]
  ELSE [ttl |-> 0 - 1, channel |-> [ch EXCEPT !.authorized = FALSE, !.token = ""]]

\* Authenticator::validate: for a token that verifies under the key the
\* channel is set authorized and holds the token's permissions, the result
\* is the time to live; for any other token the result is -1 and the channel
\* is as before
validate(ch, token, key) ==
  IF token \in ValidTokens /\ key = KeyOf(token)
  THEN [ttl |-> 1, channel |-> [ch EXCEPT !.authorized = TRUE, !.token = token]]
  ELSE [ttl |-> 0 - 1, channel |-> ch]

\* an invalid-token answer with the number of the no-access answer
MutInvalidTokenForbidden == [NoAnswer EXCEPT !.number = 403, !.reason = "Invalid Token"]

\* the error of processAuthorize and processAuthorizeWithPermManager for ttl = -1
invalidTokenResponse == [NoAnswer EXCEPT !.number = 401, !.reason = "Invalid Token"]
\* the error of processAuthorizeWithPermManager when getPermToken throws
noTokenReceivedResponse ==
  [NoAnswer EXCEPT !.number = 501,
                   !.reason = "No token received from permission management daemon"]

\* Authenticator::updatePubKey
updatePubKey(key) == pubkey' = key

\* processAuthorize, first statement: tokenValidator->updatePubKey("")
processAuthorize(h, token) ==
  /\ EngineAlive
  /\ hpc[h] = "idle"
  /\ updatePubKey("")
  /\ hpc' = [hpc EXCEPT ![h] = "auth_validate"]
  /\ hloc' = [hloc EXCEPT ![h] = [Locals(h) EXCEPT !.token = token, !.key = ""]]
  /\ UNCHANGED <<rwMutex, channel, resp, metaData, vss_tree, subscribeHandle, buffer,
                 subMutex, threadRun, workerPc, newSub, mainPc, sent, lastSet, owed,
                 nSets, nSubscribes, pushed>>

\* what getPermToken can yield: an exception, an answer without token and
\* pubkey, or an answer with a token and the key of the daemon
DaemonAnswers == {"unreachable", "none"} \cup Tokens

\* processAuthorizeWithPermManager up to updatePubKey: error 501 when
\* getPermToken throws, error 401 (ttl stays -1) for an answer without token
\* and pubkey, else the key of the answer is installed
processAuthorizeWithPermManager(h, daemon) ==
  /\ EngineAlive
  /\ hpc[h] = "idle"
  /\ IF daemon = "unreachable"
     THEN /\ resp' = [resp EXCEPT ![h] = "daemonUnavailable"]
          /\ hpc' = [hpc EXCEPT ![h] = "return"]
          /\ hloc' = [hloc EXCEPT ![h] = [Locals(h) EXCEPT !.answer = noTokenReceivedResponse]]
          /\ UNCHANGED pubkey
     ELSE IF daemon = "none"
     THEN /\ resp' = [resp EXCEPT ![h] = "invalidToken"]
          /\ hpc' = [hpc EXCEPT ![h] = "return"]
          /\ hloc' = [hloc EXCEPT ![h] = [Locals(h) EXCEPT !.answer = invalidTokenResponse]]
          /\ UNCHANGED pubkey
     ELSE /\ updatePubKey(DaemonKey)
          /\ hpc' = [hpc EXCEPT ![h] = "auth_validate"]
          /\ hloc' = [hloc EXCEPT ![h] = [Locals(h) EXCEPT !.token = daemon,
                                                          !.key = DaemonKey]]
          /\ UNCHANGED resp
  /\ UNCHANGED <<rwMutex, channel, metaData, vss_tree, subscribeHandle, buffer,
                 subMutex, threadRun, workerPc, newSub, mainPc, sent, lastSet, owed,
                 nSets, nSubscribes, pushed>>

\* the call of tokenValidator->validate in both handlers, with the key the
\* Authenticator holds at that moment, and the response: the TTL, or error
\* 401 for ttl = -1.  The channel of the state is the one of the connection
\* that Handlers serves; a request of another connection validates against
\* a channel of its own.
AuthorizeValidate(h) ==
  /\ hpc[h] = "auth_validate"
  /\ hpc' = [hpc EXCEPT ![h] = "return"]
  /\ LET v == validate(channel, hloc[h].token, pubkey)
     IN /\ channel' = IF h \in Handlers THEN v.channel ELSE channel
        /\ resp' = [resp EXCEPT ![h] = IF v.ttl = 0 - 1 THEN "invalidToken" ELSE "authorized"]
        /\ hloc' = [hloc EXCEPT ![h].answer = IF v.ttl = 0 - 1 THEN invalidTokenResponse
                                              ELSE NoAnswer]
  /\ UNCHANGED <<rwMutex, pubkey, metaData, vss_tree, subscribeHandle, buffer, subMutex,
                 threadRun, workerPc, newSub, mainPc, sent, lastSet, owed, nSets,
                 nSubscribes, pushed>>

\* WsChannel::enableModifyTree
enableModifyTree ==
  /\ ~channel.modifyTree
  /\ channel' = [channel EXCEPT !.modifyTree = TRUE]
  /\ UNCHANGED <<rwMutex, pubkey, metaData, vss_tree, subscribeHandle, buffer, subMutex,
                 threadRun, workerPc, newSub, mainPc, hpc, hloc, resp, sent, lastSet,
                 owed, nSets, nSubscribes, pushed>>

(***************************************************************************)
(* vsscommandprocessor: processQuery                                       *)
(***************************************************************************)
\* an if-chain whose last branch handles the request as a get
MutDispatchedDefaultGet(action) ==
  CASE action = "authorize" -> "processAuthorize"
    [] action = "unsubscribe" -> "processUnsubscribe"
    [] action = "kuksa-authorize" -> "processAuthorizeWithPermManager"
    [] action = "set" -> "processSet"
    [] action = "subscribe" -> "processSubscribe"
    [] action = "getMetadata" -> "processGetMetaData"
    [] OTHER -> "processGet"

\* the handler the if-chain of processQuery selects for an action
Dispatched(action) ==
  CASE action = "authorize" -> "processAuthorize"
    [] action = "unsubscribe" -> "processUnsubscribe"
    [] action = "kuksa-authorize" -> "processAuthorizeWithPermManager"
    [] action = "get" -> "processGet"
    [] action = "set" -> "processSet"
    [] action = "subscribe" -> "processSubscribe"
    [] action = "getMetadata" -> "processGetMetaData"
    [] OTHER -> "none"

\* a set branch that reads root["value"] only inside the handler
MutKeysReadSetWithoutValue(action) ==
  CASE action = "authorize" -> {"tokens", "requestId"}
    [] action = "unsubscribe" -> {"requestId", "subscriptionId"}
    [] action = "kuksa-authorize" -> {"clientid", "secret", "requestId"}
    [] OTHER -> {"path", "requestId"}

\* the members of the request processQuery reads, after "action", before it
\* calls a handler or logs the unknown action
KeysRead(action) ==
  CASE action = "authorize" -> {"tokens", "requestId"}
    [] action = "unsubscribe" -> {"requestId", "subscriptionId"}
    [] action = "kuksa-authorize" -> {"clientid", "secret", "requestId"}
    [] action = "set" -> {"path", "requestId", "value"}
    [] OTHER -> {"path", "requestId"}

\* json::parse throws json_parse_exception, root["action"] throws
\* not_an_object for a text that is no object, and reading a member that is
\* missing throws key_not_found
Throws(req) ==
  \/ req.parse # "object"
  \/ "action" \notin req.keys
  \/ ~(KeysRead(req.action) \subseteq req.keys)

\* processQuery, first part: parse the text and read the members.  The three
\* exceptions end the request with malFormedRequestResponse(message); an
\* action without handler is logged and the response stays empty.
processQuery(h, req) ==
  /\ EngineAlive
  /\ hpc[h] = "idle"
  /\ hloc[h].query = NoQuery
  /\ IF Throws(req)
     THEN /\ hpc' = [hpc EXCEPT ![h] = "return"]
          /\ resp' = [resp EXCEPT ![h] = "malformed"]
          /\ hloc' = [hloc EXCEPT ![h] = [NoLocals EXCEPT !.query = req,
                                                          !.answer = malFormedRequestResponse]]
     ELSE IF Dispatched(req.action) = "none"
     THEN /\ hpc' = [hpc EXCEPT ![h] = "return"]
          /\ resp' = [resp EXCEPT ![h] = "noResponse"]
          /\ hloc' = [hloc EXCEPT ![h] = [NoLocals EXCEPT !.query = req]]
     ELSE /\ hloc' = [hloc EXCEPT ![h] = [NoLocals EXCEPT !.query = req]]
          /\ UNCHANGED <<hpc, resp>>
  /\ UNCHANGED <<rwMutex, pubkey, channel, metaData, vss_tree, subscribeHandle, buffer,
                 subMutex, threadRun, workerPc, newSub, mainPc, sent, lastSet, owed,
                 nSets, nSubscribes, pushed>>

\* processQuery, second part: the call of the handler.  The connection is the
\* one of the unit tests; whether it may read or write the path is the
\* answer of the access checker.
processQueryCall(h) ==
  /\ hloc[h].query # NoQuery
  /\ hpc[h] = "idle"
  /\ LET q == hloc[h].query
         handler == Dispatched(q.action)
     IN \/ handler = "processAuthorize" /\ processAuthorize(h, q.token)
        \/ handler = "processUnsubscribe" /\ unsubscribe(h, q.subscriptionId)
        \/ /\ handler = "processAuthorizeWithPermManager"
           /\ \E daemon \in DaemonAnswers : processAuthorizeWithPermManager(h, daemon)
        \/ handler = "processGet" /\ GetRequest(h, q.path)
        \/ /\ handler = "processSet"
           /\ \E access \in BOOLEAN : SetSignalChannel(h, q.path, q.value, access)
        \/ /\ handler = "processSubscribe"
           /\ \E access \in BOOLEAN : subscribe(h, TestConnId, SmallSuffix, q.path, access)
        \/ handler = "processGetMetaData" /\ GetMetaDataRequest(h, q.path)

\* the text a handler returns: empty, or a JSON object with its members, the
\* values of "action" and "requestId", and the number of its error (0: none)
NoResponse == [empty |-> TRUE, members |-> {}, action |-> "", requestId |-> 0, number |-> 0]
ErrorEnvelope(action, request_id, number) ==
  [empty |-> FALSE, members |-> {"action", "requestId", "error", "timestamp"},
   action |-> action, requestId |-> request_id, number |-> number]
SuccessEnvelope(action, request_id, members) ==
  [empty |-> FALSE, members |-> {"action", "requestId", "timestamp"} \cup members,
   action |-> action, requestId |-> request_id, number |-> 0]
\* malFormedRequestResponse(message): "error" and "timestamp" only
BareErrorEnvelope(number) ==
  [empty |-> FALSE, members |-> {"error", "timestamp"}, action |-> "", requestId |-> 0,
   number |-> number]

\* the text of processGet
processGetResponse(request_id, answer) ==
  IF answer.number # 0 THEN ErrorEnvelope("get", request_id, answer.number)
  ELSE SuccessEnvelope("get", request_id,
                       {"value"} \cup (IF answer.path # <<>> THEN {"path"} ELSE {}))

\* the text of processSet; an exception processSet does not catch leaves
\* processQuery without a text
processSetResponse(request_id, outcome) ==
  LET answer == processSet(outcome)
  IN IF answer.number = 0 THEN SuccessEnvelope("set", request_id, {})
     ELSE IF answer.number < 0 THEN NoResponse
     ELSE ErrorEnvelope("set", request_id, answer.number)

\* the text of processSubscribe
processSubscribeResponse(request_id, outcome, subId) ==
  CASE outcome = "noPathFoundonTree" -> ErrorEnvelope("subscribe", request_id, 404)
    [] outcome = "genException" -> ErrorEnvelope("subscribe", request_id, 400)
    [] outcome = "noPermissionException" -> ErrorEnvelope("subscribe", request_id, 403)
    [] OTHER -> IF subId > 0
                THEN SuccessEnvelope("subscribe", request_id, {"subscriptionId"})
                ELSE ErrorEnvelope("subscribe", request_id, 400)

\* the text of processUnsubscribe: the success response with the
\* subscription id for res = 0, else error 400
processUnsubscribeResponse(request_id, res) ==
  IF res = 0 THEN SuccessEnvelope("unsubscribe", request_id, {"subscriptionId"})
  ELSE ErrorEnvelope("unsubscribe", request_id, 400)

\* a handler that names its action by the name of the database function
MutProcessGetMetaDataResponseName(request_id, outcome) ==
  IF outcome = "exception" THEN NoResponse
  ELSE SuccessEnvelope("getMetaData", request_id, {"metadata"})

\* the text of processGetMetaData: the answer of getMetaData under
\* "metadata", whatever it is; an exception of getMetaData is not caught
processGetMetaDataResponse(request_id, outcome) ==
  IF outcome = "exception" THEN NoResponse
  ELSE SuccessEnvelope("getMetadata", request_id, {"metadata"})

\* the text of processAuthorize and processAuthorizeWithPermManager
processAuthorizeResponse(action, request_id, answer) ==
  IF answer.number # 0 THEN ErrorEnvelope(action, request_id, answer.number)
  ELSE SuccessEnvelope(action, request_id, {"TTL"})

\* the text processQuery returns for the request handler h is returning from
Response(h) ==
  LET q == hloc[h].query
      handler == Dispatched(q.action)
  IN IF resp[h] = "malformed" THEN BareErrorEnvelope(hloc[h].answer.number)
     ELSE IF resp[h] = "noResponse" THEN NoResponse
     ELSE CASE handler = "processAuthorize" ->
                 processAuthorizeResponse("authorize", q.requestId, hloc[h].answer)
            [] handler = "processAuthorizeWithPermManager" ->
                 processAuthorizeResponse("kuksa-authorize", q.requestId, hloc[h].answer)
            [] handler = "processUnsubscribe" -> processUnsubscribeResponse(q.requestId, hloc[h].res)
            [] handler = "processGet" -> processGetResponse(q.requestId, hloc[h].answer)
            [] handler = "processSet" -> processSetResponse(q.requestId, resp[h])
            [] handler = "processSubscribe" ->
                 processSubscribeResponse(q.requestId, resp[h], hloc[h].subId)
            [] handler = "processGetMetaData" ->
                 processGetMetaDataResponse(q.requestId, resp[h])
            [] OTHER -> NoResponse

(***************************************************************************)
(* Requests as texts: every action with all its members and with one       *)
(* member missing, an action without handler, a text that is no JSON and a *)
(* JSON text that is no object.                                            *)
(***************************************************************************)
Actions == {"authorize", "kuksa-authorize", "get", "set", "subscribe", "unsubscribe",
            "getMetadata", "ping"}
TestRequestId == 7
\* a request text: a member the text does not hold has no value
Request(parse, keys, action, path, token) ==
  [parse |-> parse, keys |-> keys, action |-> action,
   requestId |-> IF "requestId" \in keys THEN TestRequestId ELSE 0,
   path |-> IF "path" \in keys THEN path ELSE <<>>,
   value |-> IF "value" \in keys THEN JInt(10) ELSE Absent,
   subscriptionId |-> IF "subscriptionId" \in keys THEN NewSubId(TestConnId, SmallSuffix)
                      ELSE 0,
   token |-> IF "tokens" \in keys THEN token ELSE ""]
Requests ==
  {Request("object", keys, action, path, token) :
     keys \in UNION {{{"action"} \cup KeysRead(a)} \cup
                     {({"action"} \cup KeysRead(a)) \ {k} : k \in {"action"} \cup KeysRead(a)} :
                     a \in Actions},
     action \in Actions, path \in {Lateral, InvalidPath}, token \in {"tokenA", "bad"}}
  \cup {Request(parse, {}, "", <<>>, "") : parse \in {"parseError", "notObject"}}

NextQuery ==
  \/ startThread
  \/ \E h \in Handlers :
       \/ \E req \in Requests : processQuery(h, req)
       \/ processQueryCall(h)
       \/ AuthorizeValidate(h)
       \/ SetSignalWrite(h)
       \/ UpdateByUUIDPush(h)
       \/ SetSignalReturn(h)
       \/ Return(h)

SpecQuery == Init /\ [][NextQuery]_vars

(***************************************************************************)
(* vssdatabase: updateMetaData                                             *)
(***************************************************************************)
\* an updateMetaData that resolves the path before it tests the capability
MutUpdateMetaDataOutcomePathFirst(ch, tokens) ==
  IF getVSSSpecificPath(tokens).path = <<>> THEN "notValidException"
  ELSE IF ~ch.modifyTree THEN "noPermissionException"
  ELSE "ok"

\* updateMetaData: the channel needs the modify-tree capability, then the
\* path has to name a node
updateMetaDataOutcome(ch, tokens) ==
  IF ~ch.modifyTree THEN "noPermissionException"
  ELSE IF getVSSSpecificPath(tokens).path = <<>> THEN "notValidException"
  ELSE "ok"

\* updateMetaData(channel, path, patch): merges the patch into the node
updateMetaData(h, tokens, patch) ==
  /\ EngineAlive
  /\ hpc[h] = "idle"
  /\ hpc' = [hpc EXCEPT ![h] = "return"]
  /\ hloc' = [hloc EXCEPT ![h] = [Locals(h) EXCEPT !.tokens = tokens, !.patch = patch]]
  /\ resp' = [resp EXCEPT ![h] = updateMetaDataOutcome(channel, tokens)]
  /\ IF updateMetaDataOutcome(channel, tokens) = "ok"
     THEN metaData' =
            [metaData EXCEPT ![FirstMatch(json_query(getVSSSpecificPath(tokens).path))] = patch]
     ELSE UNCHANGED metaData
  /\ UNCHANGED <<rwMutex, pubkey, channel, vss_tree, subscribeHandle, buffer, subMutex,
                 threadRun, workerPc, newSub, mainPc, sent, lastSet, owed, nSets,
                 nSubscribes, pushed>>

\* the patches and paths of the metadata requests
Patches == {"p1", "p2"}
MetaPaths == {Lateral, Acceleration, InvalidPath}

NextMeta ==
  \/ startThread
  \/ enableModifyTree
  \/ \E h \in Handlers :
       \/ \E token \in Tokens : processAuthorize(h, token)
       \/ AuthorizeValidate(h)
       \/ \E tokens \in MetaPaths, patch \in Patches : updateMetaData(h, tokens, patch)
       \/ Return(h)

SpecMeta == Init /\ [][NextMeta]_vars

(***************************************************************************)
(* Two handler threads: sets of one leaf that arrive at the same time on   *)
(* two connections, one subscription to the leaf, and the worker.          *)
(***************************************************************************)
NextConcurrent ==
  \/ startThread
  \/ subThreadRunner
  \/ \E h \in Threads :
       \/ setSignal(h, {Lateral}, {JInt(10), JInt(20)})
       \/ subscribe(h, TestConnId, SmallSuffix, Lateral, TRUE)
       \/ Return(h)

SpecConcurrent == Init /\ [][NextConcurrent]_vars

(***************************************************************************)
(* Values and their reading: sets of an integer and of a string leaf, with *)
(* numbers and strings, the marker string among them, and gets of leaves   *)
(* and of branches.                                                        *)
(***************************************************************************)
ValuePaths == {Lateral, VIN}
Values == {JInt(10), JStr("abc"), NoValue}
ReadPaths == {Lateral, VIN, Speed, Acceleration, VehicleRoot}

NextValues ==
  \/ startThread
  \/ \E h \in Handlers :
       \/ \E tokens \in ValuePaths, v \in Values : SetSignalBegin(h, tokens, v)
       \/ SetSignalWrite(h)
       \/ SetSignalReturn(h)
       \/ \E tokens \in ReadPaths : GetRequest(h, tokens)
       \/ Return(h)

SpecValues == Init /\ [][NextValues]_vars

(***************************************************************************)
(* Authorization on two connections at the same time: authorize and        *)
(* kuksa-authorize requests on two handler threads, which share the        *)
(* Authenticator.                                                          *)
(***************************************************************************)
NextAuth ==
  \/ startThread
  \/ \E h \in Threads :
       \/ \E token \in Tokens : processAuthorize(h, token)
       \/ \E daemon \in DaemonAnswers : processAuthorizeWithPermManager(h, daemon)
       \/ AuthorizeValidate(h)
       \/ Return(h)

SpecAuth == Init /\ [][NextAuth]_vars

(***************************************************************************)
(* The mutex of the tree: gets, metadata queries and sets on two handler   *)
(* threads, with paths that name a leaf, a branch, no node, and a path     *)
(* with a token that is no JSONPath expression.                            *)
(***************************************************************************)
BadPath == <<"Vehicle", BadToken>>
MutexPaths == {Lateral, Acceleration, InvalidPath}

NextMutex ==
  \/ startThread
  \/ \E h \in Threads :
       \/ \E tokens \in MutexPaths : GetRequest(h, tokens)
       \/ \E tokens \in MutexPaths : GetMetaDataRequest(h, tokens)
       \/ SetSignalBegin(h, Lateral, JInt(10))
       \/ SetSignalWrite(h)
       \/ SetSignalReturn(h)
       \/ ResolveThrows(h, BadPath)
       \/ Return(h)

SpecMutex == Init /\ [][NextMutex]_vars

\* the (uuid, subscription id, client id) entries of the map
MapEntries(handle) ==
  UNION {{<<u, s, handle[u][s]>> : s \in DOMAIN handle[u]} : u \in DOMAIN handle}

\* C21: unsubscribe(S) removes S from the inner map of every signal, leaves
\* every other entry as it was, and returns 0 for a known and for an unknown S.
C21_UnsubscribeRemovesOnlyS ==
  [][\A h \in Handlers :
       (/\ hpc[h] = "idle" /\ hpc'[h] = "return"
        /\ hloc'[h].subId # 0 /\ hloc'[h].channelID = 0)
         => /\ resp'[h] = "unsubscribed"
            /\ DOMAIN subscribeHandle' = DOMAIN subscribeHandle
            /\ MapEntries(subscribeHandle') =
                 {e \in MapEntries(subscribeHandle) : e[2] # hloc'[h].subId}]_vars

C21_Witness ==
  /\ hpc["h1"] = "return" /\ resp["h1"] = "unsubscribed"
  /\ hloc["h1"].subId = NewSubId(TestConnId, SmallSuffix)
  /\ nSubscribes = 2
  /\ Cardinality(MapEntries(subscribeHandle)) = 1
  /\ \E e \in MapEntries(subscribeHandle) : e[2] = NewSubId(CLIENT_MASK, SmallSuffix)

\* the step of processQuery that takes the text of a request
TakesRequest(h) == hloc[h].query = NoQuery /\ hloc'[h].query # NoQuery

\* the actions with a handler
RecognisedActions == {"authorize", "kuksa-authorize", "get", "set", "subscribe",
                      "unsubscribe", "getMetadata"}

RequiredFields(action) ==
  CASE action = "authorize" -> {"tokens"}
    [] action = "kuksa-authorize" -> {"clientid", "secret"}
    [] action = "set" -> {"path", "value"}
    [] action = "unsubscribe" -> {"subscriptionId"}
    [] action \in {"get", "subscribe", "getMetadata"} -> {"path"}
    [] OTHER -> {}

\* a text that is no JSON, no object, or an object without a required member
Malformed(q) ==
  \/ q.parse # "object"
  \/ ~({"action", "requestId"} \subseteq q.keys)
  \/ ~(RequiredFields(q.action) \subseteq q.keys)

\* C23: a request that is no JSON, no object or lacks a required member is
\* answered with error 400 "Bad Request" without a requestId member, and no
\* handler runs: the tree, the subscriptions and the channel stay as they are.
C23_MalformedRequest ==
  [][\A h \in Handlers :
       (TakesRequest(h) /\ Malformed(hloc'[h].query))
         => /\ hpc'[h] = "return"
            /\ ~Response(h)'.empty
            /\ Response(h)'.number = 400
            /\ hloc'[h].answer.reason = "Bad Request"
            /\ "requestId" \notin Response(h)'.members
            /\ vss_tree' = vss_tree
            /\ subscribeHandle' = subscribeHandle
            /\ channel' = channel
            /\ buffer' = buffer]_vars

C23_Witness ==
  /\ hpc["h1"] = "return" /\ resp["h1"] = "malformed"
  /\ hloc["h1"].query.action = "set"
  /\ hloc["h1"].query.keys = {"action", "path", "requestId"}
  /\ Response("h1").members = {"error", "timestamp"}
  /\ vss_tree[Lateral] = JInt(10)
  /\ subscribeHandle # <<>>
  /\ channel.authorized

\* C24: every response to a request with a recognised action carries
\* "action" with the action of the request, "requestId" with the requestId of
\* the request, and "timestamp".
C24_ResponseCarriesIds ==
  \A h \in Handlers :
    LET q == hloc[h].query
    IN (/\ hpc[h] = "return"
        /\ q.parse = "object"
        /\ {"action", "requestId"} \subseteq q.keys
        /\ q.action \in RecognisedActions
        /\ ~Response(h).empty)
         => /\ {"action", "requestId", "timestamp"} \subseteq Response(h).members
            /\ Response(h).action = q.action
            /\ Response(h).requestId = q.requestId

\* C25: an authorize request whose token validation fails leaves the channel
\* as it was, also a channel that an earlier token has authorized.
C25_FailedValidationKeepsChannel ==
  [][\A h \in Handlers :
       (hpc[h] # "return" /\ hpc'[h] = "return" /\ resp'[h] = "invalidToken")
         => channel' = channel]_vars

C25_Witness ==
  /\ hpc["h1"] = "return" /\ resp["h1"] = "invalidToken"
  /\ hloc["h1"].query.action = "authorize"
  /\ hloc["h1"].query.token = "bad"
  /\ channel.authorized /\ channel.token = "tokenA"

\* C26: updateMetaData on a channel without the modify-tree capability fails
\* with the no-permission error for a path with and without a node; with the
\* capability and a path without a node it fails with the not-valid error;
\* the metadata of the tree is unchanged in both cases.
C26_UpdateMetaDataErrors ==
  [][\A h \in Handlers :
       (hpc[h] = "idle" /\ hpc'[h] = "return" /\ hloc'[h].patch # "")
         => /\ ~channel.modifyTree
                 => resp'[h] = "noPermissionException" /\ metaData' = metaData
            /\ (channel.modifyTree /\ Matches(hloc'[h].tokens) = {})
                 => resp'[h] = "notValidException" /\ metaData' = metaData]_vars

C26_Witness ==
  /\ hpc["h1"] = "return" /\ resp["h1"] = "noPermissionException"
  /\ hloc["h1"].patch = "p1"
  /\ hloc["h1"].tokens = InvalidPath
  /\ channel.authorized /\ ~channel.modifyTree

\* C27: a getMetadata request for a path that matches no node is answered
\* with the error envelope of number 404.
C27_GetMetadataNotFound ==
  \A h \in Handlers :
    (/\ hpc[h] = "return"
     /\ resp[h] \in {"metadata", "metadataNull", "exception"}
     /\ Matches(hloc[h].tokens) = {})
      => /\ ~Response(h).empty
         /\ Response(h).number = 404
         /\ "metadata" \notin Response(h).members

\* no set is under way and no event is on its way to a client
Drained ==
  /\ \A h \in Threads : hpc[h] \in {"idle", "return"}
  /\ buffer = <<>>
  /\ newSub = NoEvent

\* the frames sent for a subscription, in the order of their sending
FramesOf(subId) == SelectSeq(sent, LAMBDA frame : frame.subId = subId)

\* C28: when all sets of a leaf have returned and the buffer is drained, the
\* last value sent to each subscriber of the leaf is the value the tree
\* holds for the leaf.
C28_LastDeliveredIsCurrent ==
  Drained =>
    \A p \in LeafPaths :
      \A subId \in Subscribers(subscribeHandle, TreeNodes[p].uuid) :
        FramesOf(subId) # <<>>
          => FramesOf(subId)[Len(FramesOf(subId))].value = vss_tree[p]

\* C29: a get of a leaf returns "---" exactly when no set of the leaf has
\* succeeded since the tree was initialised.
C29_MarkerOnlyBeforeFirstSet ==
  \A h \in Handlers :
    (hpc[h] = "return" /\ resp[h] = "get" /\ hloc[h].tokens \in LeafPaths)
      => (hloc[h].answer.value = NoValue <=> lastSet[hloc[h].tokens] = Absent)

\* C30: a get of a branch path without wildcard returns the path of the
\* branch and a map with one entry for every leaf below the branch, the path
\* of the leaf mapped to its value, or to "---" when it was never written.
C30_BranchGetPathAndMap ==
  \A h \in Handlers :
    (hpc[h] = "return" /\ resp[h] = "get" /\ NamesBranch(hloc[h].tokens))
      => LET answer == hloc[h].answer
         IN /\ answer.number = 0
            /\ answer.path = hloc[h].tokens
            /\ {e.path : e \in Range(answer.entries)} = MatchedLeaves(hloc[h].tokens)
            /\ Len(answer.entries) = Cardinality(MatchedLeaves(hloc[h].tokens))
            /\ \A e \in Range(answer.entries) :
                 e.value = IF vss_tree[e.path] = Absent THEN NoValue
                           ELSE setJsonValue(vss_tree, e.path)

\* C31: a get of a branch none of whose leaves was written returns the single
\* record of the branch path and "---", not a collection with one entry per
\* leaf.
C31_UnwrittenBranchGet ==
  \A h \in Handlers :
    (/\ hpc[h] = "return" /\ resp[h] = "get" /\ NamesBranch(hloc[h].tokens)
     /\ \A q \in MatchedLeaves(hloc[h].tokens) : vss_tree[q] = Absent)
      => LET answer == hloc[h].answer
         IN /\ answer.number = 0
            /\ answer.path = hloc[h].tokens
            /\ answer.value = NoValue
            /\ answer.entries = <<>>

\* C32: getMetaData for a path that matches no node returns null and throws
\* no exception.
C32_GetMetaDataNull ==
  \A h \in Handlers :
    (/\ hpc[h] = "return"
     /\ resp[h] \in {"metadata", "metadataNull", "exception"}
     /\ Matches(hloc[h].tokens) = {})
      => resp[h] = "metadataNull"

\* C33: a get whose path resolves to exactly one leaf, readable for the
\* channel, is answered with a success response carrying the request path
\* and the value of that leaf as a scalar, whatever the form of the path
\* (the leaf's own path or a wildcard that matches it alone); never with 400.
C33_SingleLeafGet ==
  \A h \in Handlers :
    LET answer == hloc[h].answer
    IN (/\ hpc[h] = "return" /\ resp[h] = "get2"
        /\ Len(answer.leaves) = 1
        /\ checkReadAccess(hloc[h].readable, answer.leaves[1]))
         => /\ answer.number = 0
            /\ answer.path = hloc[h].tokens
            /\ answer.value = getSignalLeaf(vss_tree, answer.leaves[1]).value

\* C34: an authorize or kuksa-authorize request is answered with a TTL
\* exactly when validate returned a value other than -1 and with error 401
\* "Invalid Token" otherwise; a kuksa-authorize request whose daemon cannot be
\* reached is answered with error 501, and neither updatePubKey nor validate
\* is called for it.
C34_AuthorizeAnswers ==
  [][\A h \in Handlers :
       /\ (hpc[h] = "auth_validate" /\ hpc'[h] = "return")
            => LET ttl == validate(channel, hloc[h].token, pubkey).ttl
               IN /\ ttl # 0 - 1 <=> "TTL" \in Response(h)'.members
                  /\ ttl # 0 - 1 => Response(h)'.number = 0
                  /\ ttl = 0 - 1 => /\ Response(h)'.number = 401
                                    /\ hloc'[h].answer.reason = "Invalid Token"
       /\ (hpc[h] = "idle" /\ hpc'[h] = "return" /\ resp'[h] = "invalidToken")
            => /\ Response(h)'.number = 401
               /\ hloc'[h].answer.reason = "Invalid Token"
       /\ (hpc[h] = "idle" /\ hpc'[h] = "return" /\ resp'[h] = "daemonUnavailable")
            => /\ Response(h)'.number = 501
               /\ "TTL" \notin Response(h)'.members
               /\ pubkey' = pubkey
               /\ channel' = channel]_vars

C34_Witness ==
  /\ hpc["h1"] = "return" /\ resp["h1"] = "authorized"
  /\ hloc["h1"].query.action = "kuksa-authorize"
  /\ hloc["h1"].token = "tokenB"
  /\ "TTL" \in Response("h1").members
  /\ channel.token = "tokenB"

\* C39: the validate of an authorize or kuksa-authorize request verifies with
\* the key that the same request installed, whatever other requests do on
\* other connections in the meantime.
C39_ValidateUsesOwnKey ==
  [][\A h \in Threads :
       (hpc[h] = "auth_validate" /\ hpc'[h] = "return") => pubkey = hloc[h].key]_vars

\* C40: an unsubscribe request with a subscription id, known or unknown, is
\* answered with the success response that carries the id; never with
\* error 400.
C40_UnsubscribeAlwaysSucceeds ==
  [][\A h \in Handlers :
       (/\ hpc[h] = "idle" /\ hpc'[h] = "return"
        /\ hloc[h].query # NoQuery
        /\ Dispatched(hloc[h].query.action) = "processUnsubscribe")
         => /\ ~Response(h)'.empty
            /\ Response(h)'.number = 0
            /\ Response(h)'.action = "unsubscribe"
            /\ "subscriptionId" \in Response(h)'.members
            /\ "error" \notin Response(h)'.members
            /\ hloc'[h].subId = hloc[h].query.subscriptionId]_vars

\* an unsubscribe request for an id that no subscription holds
C40_Witness ==
  /\ hpc["h1"] = "return" /\ resp["h1"] = "unsubscribed"
  /\ hloc["h1"].query.action = "unsubscribe"
  /\ hloc["h1"].subId \notin KnownSubIds
  /\ nSubscribes = 0
  /\ Response("h1").number = 0

\* a request that is a set: of one value or of an array of values
IsSet(h) == hloc[h].request # Absent \/ hloc[h].values # <<>>

\* C35: a set that ends with an error has modified no leaf of the tree and
\* has pushed no event, also a set of an array in which a later element has
\* an invalid path or a value that does not convert.
C35_SetAllOrNothing ==
  \A h \in Handlers :
    (hpc[h] = "return" /\ IsSet(h) /\ resp[h] # "ok")
      => hloc[h].written = {} /\ hloc[h].events = 0

\* C36: every database operation gives rwMutex back on every way out, also
\* when a query throws while the mutex is held: no thread holds the mutex
\* outside the locked regions of its operations, so that the lock of a later
\* operation returns.
C36_TreeMutexBalanced == \A h \in Threads : rwMutex # h

\* C37: once startThread has returned and until stopThread is called the
\* worker is in its loop, however the start of the thread and the assignment
\* threadRun = true are interleaved.
C37_WorkerLiveAfterStart == mainPc = "running" => workerPc # "exited"

\* C38: once unsubscribe(S), or unsubscribeAll for the connection of S, has
\* returned, no frame with subscription id S is handed to the transport,
\* also none for an event that was in the buffer when S was removed.  An id
\* leaves the map by these two calls only: with every handler returned, a
\* frame for an id outside the map is a frame for a removed subscription.
C38_NoFrameAfterUnsubscribe ==
  [][(Len(sent') > Len(sent) /\ \A h \in Handlers : hpc[h] = "idle")
       => sent'[Len(sent')].subId \in KnownSubIds]_vars

====
